---- MODULE Spec2Model ----
(***************************************************************************)
(* Model of the Dramawallah bot's Snapshot Store (WebsiteManager), of the  *)
(* Content Store inserts and of the commit handlers that write to both.    *)
(*                                                                         *)
(* Text values (titles, excerpts, bodies, queries, file names) are         *)
(* sequences of one-character strings, so that str.lower(), str.strip()    *)
(* and the substring test `in` are computed as Python computes them.       *)
(* A Python dict is a TLA+ record whose DOMAIN is the dict's key set;      *)
(* dict.get(k, d) is Get(r, k, d).                                         *)
(***************************************************************************)
EXTENDS Integers, Sequences, FiniteSets, TLC

VARIABLES
    data,      \* WebsiteManager.data: the in-memory snapshot document
    file,      \* contents of WEBSITE_DATA_FILE on disk
    call,      \* the store operation or commit handler called last
    ret,       \* what that call returned
    posts,     \* Database.posts collection, in insertion order
    blogs,     \* Database.blogs collection, in insertion order
    dbfiles,   \* Database.files collection, in insertion order
    channel,   \* the file names posted to the channel, in order
    reply,     \* the last message a workflow handler sent to the user
    query,     \* the text the last search_content call was given
    results,   \* what the last search_content call returned
    conv,      \* per user and conversation handler, the state of the conversation
    userdata,  \* context.user_data per user: the accumulated session fields
    replydata, \* whether the replied-to user's session fields were empty at the reply
    users,     \* Database.users collection: the user ids, in insertion order
    broadcast, \* the counts the last broadcast reported
    process    \* the bot process: its environment, how far its start got, its exit

vars == <<data, file, call, ret, posts, blogs, dbfiles, channel, reply, query, results,
          conv, userdata, replydata, users, broadcast, process>>

\* the conversations and what only their handlers touch
sessionVars == <<conv, userdata, replydata, users, broadcast>>

\* what the WebsiteManager operations leave alone
botVars == <<posts, blogs, dbfiles, channel, reply, query, results, sessionVars, process>>

\* everything the objects of a running bot hold
serviceVars == <<data, file, call, ret, posts, blogs, dbfiles, channel, reply, query,
                 results, sessionVars>>

----------------------------------------------------------------------------
(* Bounds of the model *)

\* most records held by the four content sequences together
MaxRecords == 2
\* most records held by the files collection
MaxFiles == 2
\* longest home_posts sequence of a document that is searched
MaxSearchLen == 11

----------------------------------------------------------------------------
(* Text *)

\* the lower-case letter of every upper-case letter
LowerMap ==
    ("A" :> "a") @@ ("B" :> "b") @@ ("C" :> "c") @@ ("D" :> "d") @@ ("E" :> "e") @@ ("F" :> "f") @@
    ("G" :> "g") @@ ("H" :> "h") @@ ("I" :> "i") @@ ("J" :> "j") @@ ("K" :> "k") @@ ("L" :> "l") @@
    ("M" :> "m") @@ ("N" :> "n") @@ ("O" :> "o") @@ ("P" :> "p") @@ ("Q" :> "q") @@ ("R" :> "r") @@
    ("S" :> "s") @@ ("T" :> "t") @@ ("U" :> "u") @@ ("V" :> "v") @@ ("W" :> "w") @@ ("X" :> "x") @@
    ("Y" :> "y") @@ ("Z" :> "z")

\* the upper-case letter of every lower-case letter
UpperMap ==
    ("a" :> "A") @@ ("b" :> "B") @@ ("c" :> "C") @@ ("d" :> "D") @@ ("e" :> "E") @@ ("f" :> "F") @@
    ("g" :> "G") @@ ("h" :> "H") @@ ("i" :> "I") @@ ("j" :> "J") @@ ("k" :> "K") @@ ("l" :> "L") @@
    ("m" :> "M") @@ ("n" :> "N") @@ ("o" :> "O") @@ ("p" :> "P") @@ ("q" :> "Q") @@ ("r" :> "R") @@
    ("s" :> "S") @@ ("t" :> "T") @@ ("u" :> "U") @@ ("v" :> "V") @@ ("w" :> "W") @@ ("x" :> "X") @@
    ("y" :> "Y") @@ ("z" :> "Z")

\* str.lower() on one character
LowerChar(c) == IF c \in DOMAIN LowerMap THEN LowerMap[c] ELSE c

\* str.upper() on one character
UpperChar(c) == IF c \in DOMAIN UpperMap THEN UpperMap[c] ELSE c

\* str.lower()
Lower(s) == [i \in 1..Len(s) |-> LowerChar(s[i])]

\* characters str.strip() removes
IsSpace(c) == c \in {" ", "\n", "\t"}

RECURSIVE LStrip(_)
LStrip(s) == IF s # <<>> /\ IsSpace(Head(s)) THEN LStrip(Tail(s)) ELSE s

RECURSIVE RStrip(_)
RStrip(s) ==
    IF s # <<>> /\ IsSpace(s[Len(s)]) THEN RStrip(SubSeq(s, 1, Len(s) - 1)) ELSE s

\* str.strip()
Strip(s) == RStrip(LStrip(s))

\* q in s (Python substring test); the empty string is in every string
Contains(s, q) ==
    \E i \in 0..(Len(s) - Len(q)) : SubSeq(s, i + 1, i + Len(q)) = q

\* s[:n]
Take(s, n) == SubSeq(s, 1, IF n < Len(s) THEN n ELSE Len(s))

\* dict.get(k, d)
Get(r, k, d) == IF k \in DOMAIN r THEN r[k] ELSE d

\* r with r[k] = v (dict item assignment)
Put(r, k, v) == [x \in DOMAIN r \cup {k} |-> IF x = k THEN v ELSE r[x]]

----------------------------------------------------------------------------
(* Users and conversations *)

\* a user listed in ADMIN_IDS and one who is not
Admin == "admin"
Guest == "guest"
Users == {Admin, Guest}
ADMIN_IDS == {Admin}

\* a test every user passes
AnyoneIsAdmin(user_id) == TRUE

\* `user_id in ADMIN_IDS` (line 170)
is_admin(user_id) == user_id \in ADMIN_IDS

\* the conversation handlers in the order setup_handlers adds them
Families == <<"addpost", "ongoing", "blog", "broadcast">>
FamilyNames == {Families[i] : i \in 1..Len(Families)}

\* ConversationHandler.END: no conversation in progress
END == "END"

\* an empty context.user_data
NoFields == [k \in {} |-> ""]

\* the state before any update is handled
\* an environment variable that is set to the value
Set(value) == [set |-> TRUE, value |-> value]
\* an environment variable that is not set
Unset == [set |-> FALSE, value |-> <<>>]

\* a process whose start went through and that polls for updates
Serving ==
    [env |-> [BOT_TOKEN |-> Set(<<"1", ":", "t">>),
              MONGO_URI |-> Set(<<"m", "o", "n", "g", "o", "d", "b", ":", "/", "/", "h">>),
              ADMIN_IDS |-> Set(<<"1">>)],
     pc |-> "run_polling", exited |-> FALSE, exit_code |-> 0, named |-> <<>>]

\* no broadcast has been sent: nothing counted, no send made
NoBroadcast == [success_count |-> 0, fail_count |-> 0, total |-> 0, sends |-> <<>>]

NoSessions ==
    /\ conv = [u \in Users |-> [f \in FamilyNames |-> END]]
    /\ userdata = [u \in Users |-> NoFields]
    /\ replydata = TRUE
    /\ users = <<>>
    /\ broadcast = NoBroadcast
    /\ process = Serving

----------------------------------------------------------------------------
(* The snapshot document *)

ContentSections == {"home_posts", "ongoing_dramas", "blog_posts", "all_posts"}

\* keys of self.data
DataKeys == ContentSections \cup {"search_data"}

\* the document load_data builds when the file does not exist
EmptyData ==
    [home_posts |-> <<>>, ongoing_dramas |-> <<>>, blog_posts |-> <<>>,
     all_posts |-> <<>>, search_data |-> <<>>]

\* json.dump raises TypeError on a datetime or an ObjectId value
Serializable(r) == "created_at" \notin DOMAIN r /\ "_id" \notin DOMAIN r

JsonSerializable(d) ==
    \A k \in DOMAIN d : \A i \in 1..Len(d[k]) : Serializable(d[k][i])

\* what the file holds after open(..., 'w') and a json.dump that raised midway
Truncated == [truncated |-> TRUE]

\* save_data: the file contents after writing document d
SavedFile(d) == IF JsonSerializable(d) THEN d ELSE Truncated

\* list.append(x) where the code has list.insert(0, x)
InsertBack(s, x) == Append(s, x)

\* list.insert(0, x)
InsertFront(s, x) == <<x>> \o s

\* list.pop(0) where the code has list.pop(post_index)
PopFirst(s, i) == Tail(s)

\* list.pop(i), the list that is left
PopAt(s, i) == SubSeq(s, 1, i - 1) \o SubSeq(s, i + 1, Len(s))

NumRecords(d) ==
    Len(d.home_posts) + Len(d.ongoing_dramas) + Len(d.blog_posts) + Len(d.all_posts)

----------------------------------------------------------------------------
(* update_search_data *)

ProjectOngoing(r) ==
    [title |-> Get(r, "title", <<>>), type |-> "Drama", category |-> "ongoing",
     image |-> Get(r, "image", ""), channel_link |-> Get(r, "channel_link", ""),
     timestamp |-> Get(r, "timestamp", "")]

ProjectAllPosts(r) ==
    [title |-> Get(r, "title", <<>>), type |-> "Drama", category |-> "all_posts",
     image |-> Get(r, "image", ""), channel_link |-> Get(r, "channel_link", ""),
     timestamp |-> Get(r, "timestamp", "")]

ProjectBlog(r) ==
    [title |-> Get(r, "title", <<>>), type |-> "Article", category |-> "blog",
     image |-> Get(r, "image", ""), preview |-> Get(r, "preview", <<>>),
     timestamp |-> Get(r, "timestamp", "")]

ProjectHome(r) ==
    [title |-> Get(r, "title", <<>>), type |-> "Drama", category |-> "home",
     image |-> Get(r, "image", ""), excerpt |-> Get(r, "excerpt", <<>>),
     timestamp |-> Get(r, "timestamp", "")]

\* the same list built with the home posts first
ProjectionHomeFirst(d) ==
    [i \in 1..Len(d.home_posts) |-> ProjectHome(d.home_posts[i])]
    \o [i \in 1..Len(d.ongoing_dramas) |-> ProjectOngoing(d.ongoing_dramas[i])]
    \o [i \in 1..Len(d.all_posts) |-> ProjectAllPosts(d.all_posts[i])]
    \o [i \in 1..Len(d.blog_posts) |-> ProjectBlog(d.blog_posts[i])]

\* the list search_data before duplicates are removed: ongoing, all posts,
\* blog, home
Projection(d) ==
    [i \in 1..Len(d.ongoing_dramas) |-> ProjectOngoing(d.ongoing_dramas[i])]
    \o [i \in 1..Len(d.all_posts) |-> ProjectAllPosts(d.all_posts[i])]
    \o [i \in 1..Len(d.blog_posts) |-> ProjectBlog(d.blog_posts[i])]
    \o [i \in 1..Len(d.home_posts) |-> ProjectHome(d.home_posts[i])]

\* the test of the duplicate-removal loop: keep an item whose lower-cased title
\* is not empty and not in seen_titles
\* the test of the duplicate filter without its `title and`
KeepItemUntitled(title, seen) == title \notin seen

KeepItem(title, seen) == title # <<>> /\ title \notin seen

\* the duplicate-removal loop over items, with unique_search_data = acc
RECURSIVE Unique(_, _, _)
Unique(items, acc, seen) ==
    IF items = <<>> THEN acc
    ELSE LET title == Lower(Get(Head(items), "title", <<>>))
         IN IF KeepItem(title, seen)
            THEN Unique(Tail(items), Append(acc, Head(items)), seen \cup {title})
            ELSE Unique(Tail(items), acc, seen)

\* update_search_data extending the list it finds instead of replacing it
SearchDataExtended(d) == d.search_data \o Unique(Projection(d), <<>>, {})

\* the value update_search_data assigns to self.data["search_data"]
SearchData(d) == Unique(Projection(d), <<>>, {})

\* the document after update_search_data
WithSearchData(d) == [d EXCEPT !.search_data = SearchData(d)]

----------------------------------------------------------------------------
(* Inputs *)

\* values datetime.now().isoformat() returns
Times == {"now"}

\* section names callers pass
SectionNames == DataKeys \cup {"bogus"}

\* records callers pass to add_to_section
InputRecords ==
    { [title |-> <<"a">>, timestamp |-> "t0"],
      [title |-> <<"A">>, excerpt |-> <<"b">>],
      [image |-> "img"] }

\* titles callers pass to move_post
InputTitles == { <<"A">>, <<>> }

\* sections callers move posts out of and into
FromSections == {"ongoing_dramas", "search_data", "bogus"}
ToSections == {"all_posts", "ongoing_dramas", "search_data"}

----------------------------------------------------------------------------
(* add_to_section, move_post *)

\* lines 56-57: stamp a timestamp if the record has none
Stamped(post_data, now) ==
    IF "timestamp" \notin DOMAIN post_data
    THEN Put(post_data, "timestamp", now) ELSE post_data

\* line 51: the section test of add_to_section
ValidSection(section) == section \in DOMAIN data

\* lines 60-66: the document after the insert and the recompute
AddedDoc(d, section, post_data) ==
    WithSearchData([d EXCEPT ![section] = InsertFront(@, post_data)])

AddToSection(section, post_data, now) ==
    /\ section \in ContentSections => NumRecords(data) < MaxRecords
    /\ call' = "add_to_section"
    /\ IF ~ValidSection(section)
       THEN /\ ret' = FALSE
            /\ UNCHANGED <<data, file>>
       ELSE /\ data' = AddedDoc(data, section, Stamped(post_data, now))
            /\ file' = SavedFile(data')
            /\ ret' = TRUE
    /\ UNCHANGED botVars

\* lines 86-90: index of the first record of s whose title equals post_title
\* ignoring case; 0 when there is none
RECURSIVE FindFrom(_, _, _)
FindFrom(s, post_title, i) ==
    IF i > Len(s) THEN 0
    ELSE IF Lower(Get(s[i], "title", <<>>)) = Lower(post_title) THEN i
    ELSE FindFrom(s, post_title, i + 1)

\* the search with post_index = -1 used when nothing matched: pop(-1) takes the
\* last record
FindPostOrLast(s, post_title) ==
    IF FindFrom(s, post_title, 1) = 0 THEN Len(s) ELSE FindFrom(s, post_title, 1)

FindPost(s, post_title) == FindFrom(s, post_title, 1)

\* lines 100-101: the record as move_post re-stamps it
Marked(post, from_section, now) ==
    Put(Put(post, "timestamp", now), "moved_from", from_section)

\* move_post without its update_search_data call
MovedDocStale(d, from_section, to_section, i, now) ==
    LET post == Marked(d[from_section][i], from_section, now)
        popped == [d EXCEPT ![from_section] = PopAt(@, i)]
    IN [popped EXCEPT ![to_section] = InsertFront(@, post)]

\* lines 97-107: the document after the pop, the insert and the recompute
MovedDoc(d, from_section, to_section, i, now) ==
    LET post == Marked(d[from_section][i], from_section, now)
        popped == [d EXCEPT ![from_section] = PopAt(@, i)]
    IN WithSearchData([popped EXCEPT ![to_section] = InsertFront(@, post)])

MovePost(from_section, to_section, post_title, now) ==
    /\ (from_section = "search_data" /\ to_section \in ContentSections)
          => NumRecords(data) < MaxRecords
    /\ call' = "move_post"
    /\ IF from_section \notin DOMAIN data \/ to_section \notin DOMAIN data
       THEN /\ ret' = FALSE
            /\ UNCHANGED <<data, file>>
       ELSE LET i == FindPost(data[from_section], post_title)
            IN IF i = 0 \/ DOMAIN data[from_section][i] = {}
               THEN /\ ret' = FALSE
                    /\ UNCHANGED <<data, file>>
               ELSE /\ data' = MovedDoc(data, from_section, to_section, i, now)
                    /\ file' = SavedFile(data')
                    /\ ret' = TRUE
    /\ UNCHANGED botVars

UpdateSearchData ==
    /\ call' = "update_search_data"
    /\ data' = WithSearchData(data)
    /\ file' = SavedFile(data')
    /\ ret' = TRUE
    /\ UNCHANGED botVars

----------------------------------------------------------------------------
(* The specification *)

Init ==
    /\ data = EmptyData
    /\ file = SavedFile(EmptyData)
    /\ call = "load_data"
    /\ ret = TRUE
    /\ posts = <<>>
    /\ blogs = <<>>
    /\ dbfiles = <<>>
    /\ channel = <<>>
    /\ reply = "none"
    /\ query = <<>>
    /\ results = <<>>
    /\ NoSessions

Next ==
    \/ \E s \in SectionNames, r \in InputRecords, t \in Times : AddToSection(s, r, t)
    \/ \E f \in FromSections, s \in ToSections, ti \in InputTitles, t \in Times :
          MovePost(f, s, ti, t)
    \/ UpdateSearchData

Spec == Init /\ [][Next]_vars

----------------------------------------------------------------------------
(* FileHandler.extract_drama_name *)

IsDigit(c) == c \in {"0", "1", "2", "3", "4", "5", "6", "7", "8", "9"}

\* str.isalpha() on one character (cased letters)
IsLetter(c) == c \in DOMAIN LowerMap \/ c \in DOMAIN UpperMap

\* the number of digits of s from index i on
RECURSIVE DigitRun(_, _)
DigitRun(s, i) == IF i <= Len(s) /\ IsDigit(s[i]) THEN 1 + DigitRun(s, i + 1) ELSE 0

\* length of the match of [Ee]p?\d+ at index i of s, 0 when there is none
MatchEpisode(s, i) ==
    IF s[i] \notin {"E", "e"} THEN 0
    ELSE IF i + 1 <= Len(s) /\ s[i + 1] = "p"
         THEN IF DigitRun(s, i + 2) > 0 THEN 2 + DigitRun(s, i + 2) ELSE 0
         ELSE IF DigitRun(s, i + 1) > 0 THEN 1 + DigitRun(s, i + 1) ELSE 0

\* length of the match of [Ss]\d+ at index i of s
MatchSeason(s, i) ==
    IF s[i] \in {"S", "s"} /\ DigitRun(s, i + 1) > 0 THEN 1 + DigitRun(s, i + 1) ELSE 0

\* the extensions of \.mkv$|\.mp4$|\.avi$|\.mov$
Extensions ==
    { <<".", "m", "k", "v">>, <<".", "m", "p", "4">>,
      <<".", "a", "v", "i">>, <<".", "m", "o", "v">> }

\* length of the match of the extension pattern at index i of s: only at the end
MatchExtension(s, i) ==
    IF i + 3 = Len(s) /\ SubSeq(s, i, Len(s)) \in Extensions THEN 4 ELSE 0

\* length of the non-greedy match open .*? close at index i of s
MatchEnclosed(s, i, open, close) ==
    IF s[i] = open /\ \E j \in (i + 1)..Len(s) : s[j] = close
    THEN (CHOOSE j \in (i + 1)..Len(s) :
             s[j] = close /\ \A k \in (i + 1)..(j - 1) : s[k] # close) - i + 1
    ELSE 0

MatchBracket(s, i) == MatchEnclosed(s, i, "[", "]")

MatchParen(s, i) == MatchEnclosed(s, i, "(", ")")

\* length of the match of [_-] at index i of s
MatchSeparator(s, i) == IF s[i] \in {"_", "-"} THEN 1 ELSE 0

\* length of the match of a pattern of patterns_to_remove at index i of s
Match(pattern, s, i) ==
    CASE pattern = "episode" -> MatchEpisode(s, i)
      [] pattern = "season" -> MatchSeason(s, i)
      [] pattern = "extension" -> MatchExtension(s, i)
      [] pattern = "bracket" -> MatchBracket(s, i)
      [] pattern = "paren" -> MatchParen(s, i)
      [] pattern = "separator" -> MatchSeparator(s, i)

\* re.sub(pattern, ' ', s) from index i on
RECURSIVE SubFrom(_, _, _)
SubFrom(pattern, s, i) ==
    IF i > Len(s) THEN <<>>
    ELSE IF Match(pattern, s, i) > 0
         THEN <<" ">> \o SubFrom(pattern, s, i + Match(pattern, s, i))
         ELSE <<s[i]>> \o SubFrom(pattern, s, i + 1)

\* lines 79-86: patterns_to_remove
PatternsToRemove ==
    <<"episode", "season", "extension", "bracket", "paren", "separator">>

\* lines 92-93: the substitutions, in the order of patterns_to_remove
RECURSIVE RemoveFrom(_, _)
RemoveFrom(drama_name, k) ==
    IF k > Len(PatternsToRemove) THEN drama_name
    ELSE RemoveFrom(SubFrom(PatternsToRemove[k], drama_name, 1), k + 1)

RemovePatterns(filename) == RemoveFrom(filename, 1)

\* ' '.join(s.split()): runs of whitespace become one space, none at the ends;
\* out is the text joined so far, gap says whitespace was met since
RECURSIVE JoinWords(_, _, _)
JoinWords(s, out, gap) ==
    IF s = <<>> THEN out
    ELSE IF IsSpace(Head(s)) THEN JoinWords(Tail(s), out, TRUE)
    ELSE JoinWords(Tail(s),
                   (IF gap /\ out # <<>> THEN Append(out, " ") ELSE out)
                      \o <<Head(s)>>,
                   FALSE)

CollapseSpaces(s) == JoinWords(s, <<>>, FALSE)

\* str.title(): a letter after a letter is lower-cased, any other letter is
\* upper-cased
RECURSIVE TitleFrom(_, _)
TitleFrom(s, afterLetter) ==
    IF s = <<>> THEN <<>>
    ELSE IF IsLetter(Head(s))
         THEN <<IF afterLetter THEN LowerChar(Head(s)) ELSE UpperChar(Head(s))>>
              \o TitleFrom(Tail(s), TRUE)
         ELSE <<Head(s)>> \o TitleFrom(Tail(s), FALSE)

TitleCase(s) == TitleFrom(s, FALSE)

\* "New Drama Post"
Placeholder ==
    <<"N", "e", "w", " ", "D", "r", "a", "m", "a", " ", "P", "o", "s", "t">>

\* the title without the fallback of line 98
ExtractDramaNameNoFallback(files) ==
    IF files = <<>> \/ Get(files[1], "file_name", <<>>) = <<>> THEN Placeholder
    ELSE TitleCase(CollapseSpaces(RemovePatterns(files[1].file_name)))

\* extract_drama_name(files); a document without file_name has file_name None
ExtractDramaName(files) ==
    IF files = <<>> \/ Get(files[1], "file_name", <<>>) = <<>> THEN Placeholder
    ELSE LET drama_name ==
                 TitleCase(CollapseSpaces(RemovePatterns(files[1].file_name)))
         IN IF Strip(drama_name) # <<>> THEN drama_name ELSE Placeholder

----------------------------------------------------------------------------
(* search_content *)

\* how many results search_content returns at most
TopN == 10

\* calculate_match_score without the bonus for an exact title match
MatchScoreNoExactBonus(q, title, excerpt, content) ==
    (IF Contains(title, q) THEN 10 ELSE 0)
    + (IF Contains(excerpt, q) THEN 3 ELSE 0)
    + (IF Contains(content, q) THEN 1 ELSE 0)

\* calculate_match_score
CalculateMatchScore(q, title, excerpt, content) ==
    (IF Contains(title, q) THEN 10 ELSE 0)
    + (IF title = q THEN 5 ELSE 0)
    + (IF Contains(excerpt, q) THEN 3 ELSE 0)
    + (IF Contains(content, q) THEN 1 ELSE 0)

\* lines 219-230: the result appended for item, or no result
SearchHit(item, section, q) ==
    LET title == Lower(Get(item, "title", <<>>))
        excerpt == Lower(Get(item, "excerpt", <<>>))
        content == Lower(Get(item, "content", <<>>))
    IN IF Contains(title, q) \/ Contains(excerpt, q) \/ Contains(content, q)
       THEN <<Put(Put(item, "category", section),
                  "match_score", CalculateMatchScore(q, title, excerpt, content))>>
       ELSE <<>>

\* the inner loop over one section's items
RECURSIVE ScanItems(_, _, _)
ScanItems(items, section, q) ==
    IF items = <<>> THEN <<>>
    ELSE SearchHit(Head(items), section, q) \o ScanItems(Tail(items), section, q)

\* the sections in the order the outer loop visits them
SearchSections == <<"home_posts", "ongoing_dramas", "all_posts", "blog_posts">>

\* the outer loop from section number k on
RECURSIVE ScanSections(_, _, _)
ScanSections(d, k, q) ==
    IF k > Len(SearchSections) THEN <<>>
    ELSE ScanItems(Get(d, SearchSections[k], <<>>), SearchSections[k], q)
         \o ScanSections(d, k + 1, q)

\* x placed before the results of equal score
InsertBeforeTies(sorted, x) ==
    LET n == Cardinality({i \in 1..Len(sorted) : sorted[i].match_score > x.match_score})
    IN SubSeq(sorted, 1, n) \o <<x>> \o SubSeq(sorted, n + 1, Len(sorted))

\* x placed into a descending list behind the results of equal score
InsertByScore(sorted, x) ==
    LET n == Cardinality({i \in 1..Len(sorted) : sorted[i].match_score >= x.match_score})
    IN SubSeq(sorted, 1, n) \o <<x>> \o SubSeq(sorted, n + 1, Len(sorted))

\* list.sort(key=match_score, reverse=True): descending, and stable
RECURSIVE SortByScore(_, _)
SortByScore(rs, sorted) ==
    IF rs = <<>> THEN sorted
    ELSE SortByScore(Tail(rs), InsertByScore(sorted, Head(rs)))

\* what search_content(raw) returns on document d
Searched(d, raw) ==
    LET q == Strip(Lower(raw))
    IN IF q = <<>> THEN <<>>
       ELSE Take(SortByScore(ScanSections(d, 1, q), <<>>), TopN)

SearchContent(raw) ==
    /\ call' = "search_content"
    /\ query' = raw
    /\ results' = Searched(data, raw)
    /\ UNCHANGED <<data, file, ret, posts, blogs, dbfiles, channel, reply, sessionVars,
                    process>>

\* records of the documents that are searched; files_count tells them apart
ExcerptHit(n) == [title |-> <<"c">>, excerpt |-> <<"A">>, files_count |-> n]
TitleHit(n) == [title |-> <<"b", "A">>, files_count |-> n]
ExactHit == [title |-> <<"A">>]
ExactAndExcerptHit == [title |-> <<"A">>, excerpt |-> <<"a", "b">>]
BodyHit == [title |-> <<"c">>, content |-> <<"b", "a">>]
NoHit == [title |-> <<"c">>]

SearchDocs ==
    { WithSearchData(
        [home_posts |-> [i \in 1..n |-> IF i % 2 = 1 THEN ExcerptHit(i) ELSE TitleHit(i)],
         ongoing_dramas |-> o, all_posts |-> a, blog_posts |-> b,
         search_data |-> <<>>]) :
        n \in 0..MaxSearchLen,
        o \in {<<>>, <<ExactHit>>, <<NoHit, ExcerptHit(0)>>},
        a \in {<<>>, <<TitleHit(0), [image |-> "img"]>>},
        b \in {<<>>, <<BodyHit>>, <<ExactAndExcerptHit, BodyHit>>} }

Queries == {<<>>, <<" ">>, <<"a">>, <<"A", " ">>, <<"\t", "b", "A">>, <<"z">>}

InitSearch ==
    /\ data \in SearchDocs
    /\ file = data
    /\ call = "load_data"
    /\ ret = TRUE
    /\ posts = <<>>
    /\ blogs = <<>>
    /\ dbfiles = <<>>
    /\ channel = <<>>
    /\ reply = "none"
    /\ query = <<>>
    /\ results = <<>>
    /\ NoSessions

NextSearch == \E raw \in Queries : SearchContent(raw)

SpecSearch == InitSearch /\ [][NextSearch]_vars

----------------------------------------------------------------------------
(* Database inserts and FileHandler.process_files *)

\* Python's None where a text or a link is expected
None == "None"

\* the dict after insert_one: created_at (a datetime) set by the Database
\* method, _id (an ObjectId) set by the driver, both on the caller's dict
WithDbFields(doc, now) == Put(Put(doc, "created_at", now), "_id", "ObjectId")

\* the record of a file whose link is lost when the shortening service fails
FileDataNoFallback(f, channel_link, resolved, shortened, now) ==
    [file_id |-> f.file_id,
     file_name |-> IF Get(f, "file_name", <<>>) # <<>> THEN f.file_name
                   ELSE <<"f", "i", "l", "e", "_">> \o f.file_id,
     channel_link |-> channel_link,
     direct_link |-> IF resolved THEN [link |-> "direct", file_id |-> f.file_id]
                     ELSE [link |-> None],
     shortened_link |-> IF resolved /\ shortened
                        THEN [link |-> "short", file_id |-> f.file_id]
                        ELSE [link |-> None],
     file_size |-> Get(f, "file_size", None),
     mime_type |-> Get(f, "mime_type", None),
     uploaded_at |-> now]

\* lines 45-58 of process_files for one file; resolved and shortened say whether
\* get_file_direct_link and the shortening service succeeded
FileData(f, channel_link, resolved, shortened, now) ==
    LET direct_link == IF resolved THEN [link |-> "direct", file_id |-> f.file_id]
                       ELSE [link |-> None]
        shortened_link ==
            IF ~resolved THEN [link |-> None]
            ELSE IF shortened THEN [link |-> "short", file_id |-> f.file_id]
            ELSE direct_link
    IN [file_id |-> f.file_id,
        file_name |-> IF Get(f, "file_name", <<>>) # <<>> THEN f.file_name
                      ELSE <<"f", "i", "l", "e", "_">> \o f.file_id,
        channel_link |-> channel_link,
        direct_link |-> direct_link,
        shortened_link |-> shortened_link,
        file_size |-> Get(f, "file_size", None),
        mime_type |-> Get(f, "mime_type", None),
        uploaded_at |-> now]

\* process_files: the list it returns; outcomes[i] tells how the calls made for
\* file i end (stored = FALSE: insert_file raises and the file is skipped)
RECURSIVE ProcessFiles(_, _, _, _)
ProcessFiles(files, outcomes, channel_link, now) ==
    IF files = <<>> THEN <<>>
    ELSE LET o == Head(outcomes)
             rest == ProcessFiles(Tail(files), Tail(outcomes), channel_link, now)
         IN IF o.stored
            THEN <<WithDbFields(
                      FileData(Head(files), channel_link, o.resolved, o.shortened, now),
                      now)>> \o rest
            ELSE rest

\* a delete_one in place of the update_one
RECURSIVE UpdatePostSectionDeleting(_, _, _, _)
UpdatePostSectionDeleting(ps, post_title, new_section, now) ==
    IF ps = <<>> THEN <<>>
    ELSE IF Get(Head(ps), "title", <<>>) = post_title
         THEN Tail(ps)
         ELSE <<Head(ps)>> \o UpdatePostSectionDeleting(Tail(ps), post_title, new_section, now)

\* update_post_section: the first post with the title gets the new section
RECURSIVE UpdatePostSection(_, _, _, _)
UpdatePostSection(ps, post_title, new_section, now) ==
    IF ps = <<>> THEN <<>>
    ELSE IF Get(Head(ps), "title", <<>>) = post_title
         THEN <<Put(Put(Head(ps), "section", new_section), "updated_at", now)>> \o Tail(ps)
         ELSE <<Head(ps)>> \o UpdatePostSection(Tail(ps), post_title, new_section, now)

----------------------------------------------------------------------------
(* Commit handlers of the bot *)

\* s.split('\n')[0]
FirstLine(s) ==
    LET breaks == {i \in 1..Len(s) : s[i] = "\n"}
    IN IF breaks = {} THEN s
       ELSE SubSeq(s, 1, (CHOOSE i \in breaks : \A j \in breaks : i <= j) - 1)

\* longest blog title
TitleLimit == 100
\* longest blog preview before "..." is appended
PreviewLimit == 200

\* a test that takes every file list as non-empty
AlwaysFiles(files) == FALSE

\* `not files` (line 315)
NoFilesReceived(files) == files = <<>>

\* a post that counts no file
PostDataCountless(user_data, files, processed_files, now) ==
    [title |-> ExtractDramaName(files),
     image |-> Get(user_data, "image_path", None),
     channel_link |-> Get(user_data, "channel_link", None),
     files_count |-> 0,
     file_names |-> <<>>,
     timestamp |-> now,
     section |-> "all_posts"]

\* lines 337-345: the post finalize_post builds
PostData(user_data, files, processed_files, now) ==
    [title |-> ExtractDramaName(files),
     image |-> Get(user_data, "image_path", None),
     channel_link |-> Get(user_data, "channel_link", None),
     files_count |-> Len(processed_files),
     file_names |-> [i \in 1..Len(processed_files) |-> processed_files[i].file_name],
     timestamp |-> now,
     section |-> "all_posts"]

\* finalize_post with the session fields user_data; failAt = k > 0: the k-th
\* send of post_to_channel raises
FinalizePost(user_data, outcomes, failAt, now) ==
    LET files == Get(user_data, "files", <<>>)
        processed_files ==
            ProcessFiles(files, outcomes, Get(user_data, "channel_link", None), now)
        names == [i \in 1..Len(processed_files) |-> processed_files[i].file_name]
        post_data == PostData(user_data, files, processed_files, now)
        added == AddedDoc(data, "all_posts", post_data)
        \* insert_post writes created_at and _id into the dict that is now
        \* self.data["all_posts"][0]
        aliased == [added EXCEPT !.all_posts[1] = WithDbFields(post_data, now)]
    IN /\ Len(outcomes) = Len(files)
       /\ failAt <= Len(processed_files)
       /\ NumRecords(data) < MaxRecords
       /\ Len(dbfiles) + Len(files) <= MaxFiles
       /\ Len(channel) + Len(files) <= MaxFiles
       /\ call' = "finalize_post"
       /\ IF NoFilesReceived(files)
          THEN /\ reply' = "no_files"
               /\ UNCHANGED <<data, file, ret, posts, dbfiles, channel>>
          ELSE /\ dbfiles' = dbfiles \o processed_files
               /\ IF processed_files = <<>>
                  THEN /\ reply' = "process_failed"
                       /\ UNCHANGED <<data, file, ret, posts, channel>>
                  ELSE IF failAt > 0
                  THEN /\ channel' = channel \o SubSeq(names, 1, failAt - 1)
                       /\ reply' = "error"
                       /\ UNCHANGED <<data, file, ret, posts>>
                  ELSE /\ channel' = channel \o names
                       /\ posts' = Append(posts, WithDbFields(post_data, now))
                       /\ data' = WithSearchData(aliased)
                       /\ file' = SavedFile(data')
                       /\ ret' = TRUE
                       /\ reply' = "post_created"
       /\ UNCHANGED <<blogs, query, results, process>>

\* lines 602-609: the entry handle_blog_more_text builds
\* the title cut from the text without splitting off the first line
BlogDataWholeTitle(user_data, now) ==
    [title |-> Take(user_data.blog_text, TitleLimit),
     content |-> user_data.blog_text,
     image |-> user_data.blog_image,
     timestamp |-> now,
     preview |-> IF Len(user_data.blog_text) > PreviewLimit
                 THEN Take(user_data.blog_text, PreviewLimit) \o <<".", ".", ".">>
                 ELSE user_data.blog_text]

BlogData(user_data, now) ==
    [title |-> Take(FirstLine(user_data.blog_text), TitleLimit),
     content |-> user_data.blog_text,
     image |-> user_data.blog_image,
     timestamp |-> now,
     preview |-> IF Len(user_data.blog_text) > PreviewLimit
                 THEN Take(user_data.blog_text, PreviewLimit) \o <<".", ".", ".">>
                 ELSE user_data.blog_text]

\* handle_blog_more_text with the session fields user_data
HandleBlogMoreText(choice, user_data, now) ==
    /\ NumRecords(data) < MaxRecords
    /\ call' = "handle_blog_more_text"
    /\ IF choice = "add_more_text"
       THEN /\ reply' = "send_more_text"
            /\ UNCHANGED <<data, file, ret, blogs>>
       ELSE IF "blog_text" \notin DOMAIN user_data \/ "blog_image" \notin DOMAIN user_data
       THEN /\ reply' = "error"
            /\ UNCHANGED <<data, file, ret, blogs>>
       ELSE LET blog_data == WithDbFields(BlogData(user_data, now), now)
            IN /\ blogs' = Append(blogs, blog_data)
               /\ data' = WithSearchData(AddedDoc(data, "blog_posts", Stamped(blog_data, now)))
               /\ file' = SavedFile(data')
               /\ ret' = TRUE
               /\ reply' = "blog_published"
    /\ UNCHANGED <<posts, dbfiles, channel, query, results, process>>

\* handle_ongoing_completion with the session fields user_data
HandleOngoingCompletion(choice, user_data, now) ==
    LET drama_name == ExtractDramaName(Get(user_data, "files", <<>>))
        i == FindPost(data.ongoing_dramas, drama_name)
    IN /\ call' = "handle_ongoing_completion"
       /\ IF "channel_link" \notin DOMAIN user_data
          THEN /\ reply' = "error"
               /\ UNCHANGED <<data, file, ret, posts>>
          ELSE IF choice = "yes_complete"
          THEN /\ posts' = UpdatePostSection(posts, drama_name, "all_posts", now)
               /\ data' = WithSearchData(
                             IF i = 0 \/ DOMAIN data.ongoing_dramas[i] = {}
                             THEN data
                             ELSE MovedDoc(data, "ongoing_dramas", "all_posts", i, now))
               /\ file' = SavedFile(data')
               /\ ret' = TRUE
               /\ reply' = "moved"
          ELSE /\ reply' = "kept"
               /\ UNCHANGED <<data, file, ret, posts>>
       /\ UNCHANGED <<blogs, dbfiles, channel, query, results, process>>

----------------------------------------------------------------------------
(* The bot committing to the store and the database *)

\* n copies of character c
Repeat(c, n) == [i \in 1..n |-> c]

\* documents the user sent: one named, one without a file name
NamedFile == [file_id |-> <<"1">>, file_name |-> <<"A", ".", "m", "k", "v">>]
UnnamedFile == [file_id |-> <<"2">>]

\* context.user_data as the conversations leave it before a commit handler
PostSessions ==
    { [channel_link |-> "@ch"],
      [channel_link |-> "@ch", image_path |-> "img", files |-> <<NamedFile>>],
      [channel_link |-> "@ch", files |-> <<UnnamedFile, NamedFile>>],
      [files |-> <<NamedFile>>] }

BlogSessions ==
    { [blog_text |-> <<"A", "\n", "b">>, blog_image |-> "img"],
      [blog_text |-> Repeat("x", PreviewLimit + 1), blog_image |-> "img"],
      [blog_text |-> <<"b">>] }

\* how the calls process_files makes for one file can end
Outcomes ==
    { [resolved |-> r, shortened |-> sh, stored |-> st] :
         r \in BOOLEAN, sh \in BOOLEAN, st \in BOOLEAN }

OutcomeLists == {<<>>} \cup {<<o>> : o \in Outcomes} \cup (Outcomes \X Outcomes)

NextCommit ==
    \/ \E ud \in PostSessions, os \in OutcomeLists, k \in 0..MaxFiles, now \in Times :
          FinalizePost(ud, os, k, now) /\ UNCHANGED sessionVars
    \/ \E choice \in {"add_more_text", "finish_blog"}, ud \in BlogSessions, now \in Times :
          HandleBlogMoreText(choice, ud, now) /\ UNCHANGED sessionVars
    \/ \E choice \in {"yes_complete", "no_complete"}, ud \in PostSessions, now \in Times :
          HandleOngoingCompletion(choice, ud, now) /\ UNCHANGED sessionVars

----------------------------------------------------------------------------
(* Dispatch of an update to the conversation handlers *)

\* updates: a command, a text that is no command, a photo, a document, or a
\* pressed inline button (callback query) with its callback data
CommandUpdate(name) == [kind |-> "command", name |-> name]
TextUpdate(text) == [kind |-> "text", text |-> text]
PhotoUpdate == [kind |-> "photo"]
DocumentUpdate(document) == [kind |-> "document", document |-> document]
CallbackUpdate(cbdata) == [kind |-> "callback", data |-> cbdata]

\* MessageHandler / CallbackQueryHandler entries of the states dictionaries
OnText(handler) == [kind |-> "text", pattern |-> {}, handler |-> handler]
OnPhoto(handler) == [kind |-> "photo", pattern |-> {}, handler |-> handler]
OnDocument(handler) == [kind |-> "document", pattern |-> {}, handler |-> handler]
OnCallback(pattern, handler) == [kind |-> "callback", pattern |-> pattern, handler |-> handler]

\* entry_points of each ConversationHandler
EntryPoints ==
    [addpost |-> "start_addpost", ongoing |-> "start_ongoing",
     blog |-> "start_blog", broadcast |-> "start_broadcast"]

\* states of each ConversationHandler
States ==
    [addpost |->
        [CHANNEL_LINK |-> {OnText("get_channel_link")},
         IMAGE |-> {OnPhoto("get_image")},
         FILES |-> {OnDocument("get_files"),
                    OnCallback({"more_files", "finish_files"}, "handle_file_decision")}],
     ongoing |->
        [ONGOING_CHOICE |->
            {OnCallback({"add_ongoing", "edit_ongoing"}, "handle_ongoing_choice")},
         ONGOING_CHANNEL |-> {OnText("get_ongoing_channel")},
         ONGOING_FILES |->
            {OnDocument("get_ongoing_files"),
             OnCallback({"more_ongoing_files", "finish_ongoing_files"},
                        "handle_ongoing_files_decision")},
         ONGOING_COMPLETION |->
            {OnCallback({"yes_complete", "no_complete"}, "handle_ongoing_completion")}],
     blog |->
        [BLOG_IMAGE |-> {OnPhoto("get_blog_image")},
         BLOG_TEXT |-> {OnText("get_blog_text")},
         BLOG_MORE_TEXT |->
            {OnCallback({"add_more_text", "finish_blog"}, "handle_blog_more_text")}],
     broadcast |->
        [BROADCAST_MESSAGE |-> {OnText("send_broadcast")}]]

\* the handler entry accepts the update
Accepts(entry, update) ==
    /\ entry.kind = update.kind
    /\ update.kind = "callback" => update.data \in entry.pattern

\* ConversationHandler.check_update (allow_reentry is not set): the callback
\* family runs for the update when its conversation is in state, or "none"
HandlerFor(family, state, update) ==
    IF state = END
    THEN IF update.kind = "command" /\ update.name = family
         THEN EntryPoints[family] ELSE "none"
    ELSE LET entries == IF state \in DOMAIN States[family]
                        THEN {e \in States[family][state] : Accepts(e, update)}
                        ELSE {}
         IN IF entries # {} THEN (CHOOSE e \in entries : TRUE).handler
            ELSE IF update.kind = "command" /\ update.name = "cancel"
            THEN "cancel" ELSE "none"

\* the first conversation handler, in the order they were added, that takes
\* the update of user u, with the callback it runs
RECURSIVE DispatchFrom(_, _, _)
DispatchFrom(i, u, update) ==
    IF i > Len(Families) THEN [family |-> "none", handler |-> "none"]
    ELSE LET h == HandlerFor(Families[i], conv[u][Families[i]], update)
         IN IF h # "none" THEN [family |-> Families[i], handler |-> h]
            ELSE DispatchFrom(i + 1, u, update)

Dispatch(u, update) == DispatchFrom(1, u, update)

\* the conversation of user u in family moves to state
Goto(u, family, state) == conv' = [conv EXCEPT ![u][family] = state]

\* bot reply sent to a user whose session fields are fields at that moment
Reply(text, fields) == reply' = text /\ replydata' = (DOMAIN fields = {})

\* what the conversation callbacks leave alone in the stores
storeVars == <<data, file, call, ret, posts, blogs, dbfiles, channel, query, results,
               process>>

----------------------------------------------------------------------------
(* /addpost conversation and /cancel *)

\* str.startswith
StartsWith(s, prefix) == Len(prefix) <= Len(s) /\ SubSeq(s, 1, Len(prefix)) = prefix

\* the test with the t.me/ alternative left out
ValidChannelLinkAtOnly(channel_link) == StartsWith(channel_link, <<"@">>)

\* the test of get_channel_link on the stripped text
ValidChannelLink(channel_link) ==
    StartsWith(channel_link, <<"@">>) \/ Contains(channel_link, <<"t", ".", "m", "e", "/">>)

\* user_data of user u with field k set to v
SetField(u, k, v) == [userdata EXCEPT ![u] = Put(@, k, v)]

\* user_data.clear() for user u
Cleared(u) == [userdata EXCEPT ![u] = NoFields]

start_addpost(u) ==
    /\ Dispatch(u, CommandUpdate("addpost")).handler = "start_addpost"
    /\ IF ~is_admin(u)
       THEN Reply("admins_only", userdata[u]) /\ Goto(u, "addpost", END)
       ELSE Reply("send_channel_link", userdata[u]) /\ Goto(u, "addpost", "CHANNEL_LINK")
    /\ UNCHANGED <<storeVars, userdata, users, broadcast>>

get_channel_link(u, text) ==
    LET channel_link == Strip(text)
    IN /\ Dispatch(u, TextUpdate(text)).handler = "get_channel_link"
          /\ IF ~ValidChannelLink(channel_link)
          THEN /\ Reply("invalid_channel_link", userdata[u])
               /\ Goto(u, "addpost", "CHANNEL_LINK")
               /\ UNCHANGED userdata
          ELSE /\ userdata' = SetField(u, "channel_link", channel_link)
               /\ Reply("channel_saved", userdata'[u])
               /\ Goto(u, "addpost", "IMAGE")
       /\ UNCHANGED <<storeVars, users, broadcast>>

\* fetched = FALSE: photo[-1].get_file() raises
get_image(u, fetched) ==
    LET withImage == Put(Put(userdata[u], "image_file_id", "img_id"), "image_path", "img")
    IN /\ Dispatch(u, PhotoUpdate).handler = "get_image"
          /\ IF fetched
          THEN /\ Reply("image_saved", withImage)
               /\ userdata' = [userdata EXCEPT ![u] = Put(withImage, "files", <<>>)]
               /\ Goto(u, "addpost", "FILES")
          ELSE /\ Reply("error", userdata[u])
               /\ Goto(u, "addpost", END)
               /\ UNCHANGED userdata
       /\ UNCHANGED <<storeVars, users, broadcast>>

get_files(u, document) ==
    /\ Dispatch(u, DocumentUpdate(document)).handler = "get_files"
    /\ IF "files" \notin DOMAIN userdata[u]
       THEN /\ Reply("error", userdata[u])
            /\ UNCHANGED userdata
       ELSE /\ userdata' = SetField(u, "files", Append(userdata[u].files, document))
            /\ Reply("files_received", userdata'[u])
    /\ Goto(u, "addpost", "FILES")
    /\ UNCHANGED <<storeVars, users, broadcast>>

handle_file_decision(u, cbdata, outcomes, failAt, now) ==
    /\ Dispatch(u, CallbackUpdate(cbdata)).handler = "handle_file_decision"
    /\ IF cbdata = "more_files"
       THEN /\ Reply("send_more_files", userdata[u])
            /\ Goto(u, "addpost", "FILES")
            /\ UNCHANGED <<storeVars, userdata>>
       ELSE /\ FinalizePost(userdata[u], outcomes, failAt, now)
            /\ replydata' = (DOMAIN userdata[u] = {})
            /\ userdata' = IF reply' = "post_created" THEN Cleared(u) ELSE userdata
            /\ Goto(u, "addpost", END)
    /\ UNCHANGED <<users, broadcast>>

\* the fallback of all four conversation handlers
\* an update no handler accepts is dropped without a reply: a conversation in
\* progress offers only the handlers of its state and its fallbacks
\* (allow_reentry is left at its default, False)
ignored(u, update) ==
    /\ Dispatch(u, update).handler = "none"
    /\ reply' = "none"
    /\ UNCHANGED <<storeVars, conv, userdata, replydata, users, broadcast>>

cancel(u) ==
    LET d == Dispatch(u, CommandUpdate("cancel"))
    IN /\ d.handler = "cancel"
          /\ userdata' = Cleared(u)
       /\ Reply("cancelled", userdata'[u])
       /\ Goto(u, d.family, END)
       /\ UNCHANGED <<storeVars, users, broadcast>>

----------------------------------------------------------------------------
(* /ongoing conversation *)

start_ongoing(u) ==
    /\ Dispatch(u, CommandUpdate("ongoing")).handler = "start_ongoing"
    /\ IF ~is_admin(u)
       THEN Reply("admins_only", userdata[u]) /\ Goto(u, "ongoing", END)
       ELSE Reply("choose_option", userdata[u]) /\ Goto(u, "ongoing", "ONGOING_CHOICE")
    /\ UNCHANGED <<storeVars, userdata, users, broadcast>>

handle_ongoing_choice(u, cbdata) ==
    /\ Dispatch(u, CallbackUpdate(cbdata)).handler = "handle_ongoing_choice"
    /\ Reply("send_channel_link", userdata[u])
    /\ userdata' = SetField(u, "ongoing_action", IF cbdata = "add_ongoing" THEN "add" ELSE "edit")
    /\ Goto(u, "ongoing", "ONGOING_CHANNEL")
    /\ UNCHANGED <<storeVars, users, broadcast>>

get_ongoing_channel(u, text) ==
    LET withLink == Put(userdata[u], "channel_link", Strip(text))
    IN /\ Dispatch(u, TextUpdate(text)).handler = "get_ongoing_channel"
          /\ IF "ongoing_action" \notin DOMAIN userdata[u]
          THEN /\ userdata' = [userdata EXCEPT ![u] = withLink]
               /\ Reply("error", withLink)
               /\ Goto(u, "ongoing", END)
          ELSE IF userdata[u].ongoing_action = "add"
          THEN /\ userdata' = [userdata EXCEPT ![u] = withLink]
               /\ Reply("channel_saved", withLink)
               /\ Goto(u, "ongoing", "IMAGE")
          ELSE /\ userdata' = [userdata EXCEPT ![u] = Put(withLink, "files", <<>>)]
               /\ Reply("channel_found", withLink)
               /\ Goto(u, "ongoing", "ONGOING_FILES")
       /\ UNCHANGED <<storeVars, users, broadcast>>

get_ongoing_files(u, document) ==
    /\ Dispatch(u, DocumentUpdate(document)).handler = "get_ongoing_files"
    /\ IF "files" \notin DOMAIN userdata[u]
       THEN /\ Reply("error", userdata[u])
            /\ UNCHANGED userdata
       ELSE /\ userdata' = SetField(u, "files", Append(userdata[u].files, document))
            /\ Reply("files_received", userdata'[u])
    /\ Goto(u, "ongoing", "ONGOING_FILES")
    /\ UNCHANGED <<storeVars, users, broadcast>>

\* failAt = k > 0: the k-th send of post_to_channel raises
handle_ongoing_files_decision(u, cbdata, outcomes, failAt, now) ==
    LET fields == userdata[u]
        processed_files == ProcessFiles(fields.files, outcomes, fields.channel_link, now)
        names == [i \in 1..Len(processed_files) |-> processed_files[i].file_name]
    IN /\ Dispatch(u, CallbackUpdate(cbdata)).handler = "handle_ongoing_files_decision"
          /\ IF cbdata = "more_ongoing_files"
          THEN /\ Reply("send_more_files", fields)
               /\ Goto(u, "ongoing", "ONGOING_FILES")
               /\ UNCHANGED <<dbfiles, channel>>
          ELSE IF "channel_link" \notin DOMAIN fields \/ "files" \notin DOMAIN fields
          THEN /\ Reply("error", fields)
               /\ Goto(u, "ongoing", END)
               /\ UNCHANGED <<dbfiles, channel>>
          ELSE IF fields.files = <<>>
          THEN /\ Reply("no_files", fields)
               /\ Goto(u, "ongoing", END)
               /\ UNCHANGED <<dbfiles, channel>>
          ELSE /\ Len(outcomes) = Len(fields.files)
               /\ failAt <= Len(processed_files)
               /\ Len(dbfiles) + Len(fields.files) <= MaxFiles
               /\ Len(channel) + Len(fields.files) <= MaxFiles
               /\ dbfiles' = dbfiles \o processed_files
               /\ IF failAt > 0
                  THEN /\ channel' = channel \o SubSeq(names, 1, failAt - 1)
                       /\ Reply("error", fields)
                       /\ Goto(u, "ongoing", END)
                  ELSE /\ channel' = channel \o names
                       /\ Reply("files_added", fields)
                       /\ Goto(u, "ongoing", "ONGOING_COMPLETION")
       /\ UNCHANGED <<data, file, call, ret, posts, blogs, query, results, userdata, users,
                       broadcast, process>>

handle_ongoing_completion(u, cbdata, now) ==
    /\ Dispatch(u, CallbackUpdate(cbdata)).handler = "handle_ongoing_completion"
    /\ HandleOngoingCompletion(cbdata, userdata[u], now)
    /\ replydata' = (DOMAIN userdata[u] = {})
    /\ userdata' = IF reply' = "error" THEN userdata ELSE Cleared(u)
    /\ Goto(u, "ongoing", END)
    /\ UNCHANGED <<users, broadcast>>

----------------------------------------------------------------------------
(* /blog conversation *)

start_blog(u) ==
    /\ Dispatch(u, CommandUpdate("blog")).handler = "start_blog"
    /\ IF ~is_admin(u)
       THEN /\ Reply("admins_only", userdata[u])
            /\ Goto(u, "blog", END)
            /\ UNCHANGED userdata
       ELSE /\ Reply("send_blog_image", userdata[u])
            /\ userdata' = SetField(u, "blog_text", <<>>)
            /\ Goto(u, "blog", "BLOG_IMAGE")
    /\ UNCHANGED <<storeVars, users, broadcast>>

\* fetched = FALSE: photo[-1].get_file() raises
get_blog_image(u, fetched) ==
    /\ Dispatch(u, PhotoUpdate).handler = "get_blog_image"
    /\ IF fetched
       THEN /\ userdata' = [userdata EXCEPT ![u] =
                               Put(Put(@, "blog_image", "img"), "blog_image_id", "img_id")]
            /\ Reply("image_saved", userdata'[u])
            /\ Goto(u, "blog", "BLOG_TEXT")
       ELSE /\ Reply("error", userdata[u])
            /\ Goto(u, "blog", END)
            /\ UNCHANGED userdata
    /\ UNCHANGED <<storeVars, users, broadcast>>

get_blog_text(u, text) ==
    /\ Dispatch(u, TextUpdate(text)).handler = "get_blog_text"
    /\ IF "blog_text" \notin DOMAIN userdata[u]
       THEN /\ Reply("error", userdata[u])
            /\ UNCHANGED userdata
       ELSE /\ userdata' = SetField(u, "blog_text",
                                    userdata[u].blog_text \o text \o <<"\n", "\n">>)
            /\ Reply("content_preview", userdata'[u])
    /\ Goto(u, "blog", "BLOG_MORE_TEXT")
    /\ UNCHANGED <<storeVars, users, broadcast>>

handle_blog_more_text(u, cbdata, now) ==
    /\ Dispatch(u, CallbackUpdate(cbdata)).handler = "handle_blog_more_text"
    /\ HandleBlogMoreText(cbdata, userdata[u], now)
    /\ replydata' = (DOMAIN userdata[u] = {})
    /\ userdata' = IF reply' = "blog_published" THEN Cleared(u) ELSE userdata
    /\ Goto(u, "blog", IF reply' = "send_more_text" THEN "BLOG_TEXT" ELSE END)
    /\ UNCHANGED <<users, broadcast>>

----------------------------------------------------------------------------
(* /broadcast conversation and /start *)

start_broadcast(u) ==
    /\ Dispatch(u, CommandUpdate("broadcast")).handler = "start_broadcast"
    /\ IF ~is_admin(u)
       THEN Reply("admins_only", userdata[u]) /\ Goto(u, "broadcast", END)
       ELSE Reply("send_broadcast_message", userdata[u])
            /\ Goto(u, "broadcast", "BROADCAST_MESSAGE")
    /\ UNCHANGED <<storeVars, userdata, users, broadcast>>

\* unreachable: the registered users the message cannot be sent to
\* a loop that gives up at the first send that fails
RECURSIVE BroadcastLoopAborting(_, _, _)
BroadcastLoopAborting(us, unreachable, report) ==
    IF us = <<>> THEN report
    ELSE IF Head(us) \in unreachable
    THEN [report EXCEPT !.fail_count = @ + 1,
                        !.sends = Append(@, [chat_id |-> Head(us), delivered |-> FALSE])]
    ELSE BroadcastLoopAborting(Tail(us), unreachable,
            [report EXCEPT !.success_count = @ + 1,
                           !.sends = Append(@, [chat_id |-> Head(us), delivered |-> TRUE])])

\* lines 664-673: one send per user; a send to an unreachable user raises and
\* is counted as failed
RECURSIVE BroadcastLoop(_, _, _)
BroadcastLoop(us, unreachable, report) ==
    IF us = <<>> THEN report
    ELSE LET delivered == Head(us) \notin unreachable
             send == [chat_id |-> Head(us), delivered |-> delivered]
         IN BroadcastLoop(Tail(us), unreachable,
               IF delivered
               THEN [report EXCEPT !.success_count = @ + 1, !.sends = Append(@, send)]
               ELSE [report EXCEPT !.fail_count = @ + 1, !.sends = Append(@, send)])

\* broadcast holds the counts of the final report and the sends made
send_broadcast(u, text, unreachable) ==
    /\ Dispatch(u, TextUpdate(text)).handler = "send_broadcast"
    /\ IF users = <<>>
       THEN Reply("no_users", userdata[u]) /\ UNCHANGED broadcast
       ELSE /\ broadcast' = BroadcastLoop(users, unreachable,
                                [success_count |-> 0, fail_count |-> 0,
                                 total |-> Len(users), sends |-> <<>>])
            /\ Reply("broadcast_complete", userdata[u])
    /\ Goto(u, "broadcast", END)
    /\ UNCHANGED <<storeVars, userdata, users>>

\* an insert of the user on every registration
AddUserInsert(user_id) == Append(users, user_id)

\* Database.add_user: upsert by user_id
add_user(user_id) ==
    IF \E i \in 1..Len(users) : users[i] = user_id THEN users ELSE Append(users, user_id)

\* /start: no conversation handler takes the command
start(u) ==
    /\ Dispatch(u, CommandUpdate("start")).handler = "none"
    /\ users' = add_user(u)
    /\ Reply("welcome", userdata[u])
    /\ UNCHANGED <<storeVars, conv, userdata, broadcast>>

\* /help: the help text is the whole answer
help(u) ==
    /\ Dispatch(u, CommandUpdate("help")).handler = "none"
    /\ Reply("help", userdata[u])
    /\ UNCHANGED <<storeVars, conv, userdata, users, broadcast>>

\* a text that no conversation takes: nothing happens in a private chat; in a
\* group the text is answered when one of its keywords matches an entry of
\* search_data (found)
handle_text_message(u, text, chat_type, found) ==
    /\ Dispatch(u, TextUpdate(text)).handler = "none"
    /\ IF chat_type # "private" /\ found
       THEN Reply("search_results", userdata[u])
       ELSE UNCHANGED <<reply, replydata>>
    /\ UNCHANGED <<storeVars, conv, userdata, users, broadcast>>

----------------------------------------------------------------------------
(* The bot handling the updates of its users *)

\* texts users send: channel links with and without surrounding whitespace,
\* and a text that is no channel link
Texts ==
    { <<"@", "c">>, <<" ", "@", "c">>, <<"t", ".", "m", "e", "/">>, <<"h", "i">> }

Documents == {NamedFile}

\* every call made for a file succeeds / the insert of the file raises
Processed == [resolved |-> TRUE, shortened |-> TRUE, stored |-> TRUE]
NotStored == [resolved |-> FALSE, shortened |-> FALSE, stored |-> FALSE]

SessionOutcomes ==
    {os \in OutcomeLists : \E o \in {Processed, NotStored} : \A i \in 1..Len(os) : os[i] = o}

\* the conversations a user has in progress
InProgress(u) == {f \in FamilyNames : conv[u][f] # END}

\* the file lists a user accumulates in one publish session
FileLists == {<<>>, <<NamedFile>>, <<NamedFile, NamedFile>>}

\* the document still fits the file list of user u
RoomFor(u, document, lists) == Append(Get(userdata[u], "files", <<>>), document) \in lists

\* the /addpost conversation alone, for every user
NextPublish ==
    \E u \in Users :
       \/ cancel(u)
       \/ start_addpost(u)
       \/ ignored(u, CommandUpdate("addpost"))
       \/ \E text \in Texts : get_channel_link(u, text)
       \/ \E fetched \in BOOLEAN : get_image(u, fetched)
       \/ \E document \in Documents :
             RoomFor(u, document, FileLists) /\ get_files(u, document)
       \/ \E cbdata \in {"more_files", "finish_files"} :
             /\ Dispatch(u, CallbackUpdate(cbdata)).handler = "handle_file_decision"
             /\ \E os \in SessionOutcomes, k \in 0..1, now \in Times :
                   handle_file_decision(u, cbdata, os, k, now)

SpecPublish == Init /\ [][NextPublish]_vars

\* the texts sent in the four conversations together: a channel link and a
\* text that is none
FewTexts == { <<"@", "c">>, <<"h", "i">> }

\* a user starts a conversation while no other is in progress
MayStart(u) == InProgress(u) = {}

\* the file lists and the blog text a user accumulates with the four
\* conversations together
ShortFileLists == {<<>>, <<NamedFile>>}
BlogDrafts == {text \o <<"\n", "\n">> : text \in FewTexts}

\* the four conversations, one at a time, for every user
NextSession ==
    \E u \in Users :
       \/ cancel(u)
       \/ MayStart(u) /\
             (start_addpost(u) \/ start_ongoing(u) \/ start_blog(u) \/ start_broadcast(u))
       \/ \E text \in FewTexts : get_channel_link(u, text)
       \/ get_image(u, TRUE)
       \/ \E document \in Documents :
             RoomFor(u, document, ShortFileLists) /\ get_files(u, document)
       \/ \E cbdata \in {"more_files", "finish_files"} :
             /\ Dispatch(u, CallbackUpdate(cbdata)).handler = "handle_file_decision"
             /\ \E os \in SessionOutcomes, now \in Times :
                   handle_file_decision(u, cbdata, os, 0, now)
       \/ \E cbdata \in {"add_ongoing", "edit_ongoing"} : handle_ongoing_choice(u, cbdata)
       \/ \E text \in FewTexts : get_ongoing_channel(u, text)
       \/ \E document \in Documents :
             RoomFor(u, document, ShortFileLists) /\ get_ongoing_files(u, document)
       \/ \E cbdata \in {"more_ongoing_files", "finish_ongoing_files"} :
             /\ Dispatch(u, CallbackUpdate(cbdata)).handler = "handle_ongoing_files_decision"
             /\ \E os \in SessionOutcomes, now \in Times :
                   handle_ongoing_files_decision(u, cbdata, os, 0, now)
       \/ \E cbdata \in {"yes_complete", "no_complete"}, now \in Times :
             handle_ongoing_completion(u, cbdata, now)
       \/ get_blog_image(u, TRUE)
       \/ \E text \in FewTexts :
             /\ Get(userdata[u], "blog_text", <<>>) \o text \o <<"\n", "\n">> \in BlogDrafts
             /\ get_blog_text(u, text)
       \/ \E cbdata \in {"add_more_text", "finish_blog"}, now \in Times :
             handle_blog_more_text(u, cbdata, now)
       \/ \E text \in FewTexts : send_broadcast(u, text, {})

SpecSession == Init /\ [][NextSession]_vars

\* the /addpost and /ongoing conversations of an admin, also both in progress
NextConcurrent ==
    \/ cancel(Admin)
    \/ start_addpost(Admin)
    \/ start_ongoing(Admin)
    \/ \E text \in FewTexts : get_channel_link(Admin, text)
    \/ get_image(Admin, TRUE)
    \/ \E document \in Documents :
          RoomFor(Admin, document, ShortFileLists) /\ get_files(Admin, document)
    \/ \E cbdata \in {"more_files", "finish_files"} :
          /\ Dispatch(Admin, CallbackUpdate(cbdata)).handler = "handle_file_decision"
          /\ \E os \in SessionOutcomes, now \in Times :
                handle_file_decision(Admin, cbdata, os, 0, now)
    \/ \E cbdata \in {"add_ongoing", "edit_ongoing"} : handle_ongoing_choice(Admin, cbdata)
    \/ \E text \in FewTexts : get_ongoing_channel(Admin, text)
    \/ \E document \in Documents :
          RoomFor(Admin, document, ShortFileLists) /\ get_ongoing_files(Admin, document)
    \/ \E cbdata \in {"more_ongoing_files", "finish_ongoing_files"} :
          /\ Dispatch(Admin, CallbackUpdate(cbdata)).handler = "handle_ongoing_files_decision"
          /\ \E os \in SessionOutcomes, now \in Times :
                handle_ongoing_files_decision(Admin, cbdata, os, 0, now)
    \/ \E cbdata \in {"yes_complete", "no_complete"}, now \in Times :
          handle_ongoing_completion(Admin, cbdata, now)

SpecConcurrent == Init /\ [][NextConcurrent]_vars

\* the users in the store when a broadcast is sent, and the ones the bot
\* cannot reach
MaxUsers == 5
Recipients == 1..MaxUsers
UserLists == {[i \in 1..n |-> i] : n \in 0..MaxUsers}

\* the bot started on a user store filled by earlier runs
InitBroadcast ==
    /\ data = EmptyData
    /\ file = SavedFile(EmptyData)
    /\ call = "load_data"
    /\ ret = TRUE
    /\ posts = <<>>
    /\ blogs = <<>>
    /\ dbfiles = <<>>
    /\ channel = <<>>
    /\ reply = "none"
    /\ query = <<>>
    /\ results = <<>>
    /\ conv = [u \in Users |-> [f \in FamilyNames |-> END]]
    /\ userdata = [u \in Users |-> NoFields]
    /\ replydata = TRUE
    /\ users \in UserLists
    /\ broadcast = NoBroadcast
    /\ process = Serving

\* the /broadcast conversation
NextBroadcast ==
    \E u \in Users :
       \/ cancel(u)
       \/ start_broadcast(u)
       \/ \E unreachable \in SUBSET Recipients : send_broadcast(u, <<"h", "i">>, unreachable)

SpecBroadcast == InitBroadcast /\ [][NextBroadcast]_vars

----------------------------------------------------------------------------
(* extract_drama_name on the batch of a session *)

\* longest file name built from NameChars
MaxNameLen == 3

NameChars == {"a", "E", "1", "-", "[", "]"}

RECURSIVE NamesUpTo(_)
NamesUpTo(n) ==
    IF n = 0 THEN {<<>>}
    ELSE LET shorter == NamesUpTo(n - 1)
         IN shorter \cup {Append(name, c) : name \in shorter, c \in NameChars}

\* "MyShow.S01E02.1080p.mkv"
SampleName ==
    <<"M", "y", "S", "h", "o", "w", ".", "S", "0", "1", "E", "0", "2", ".",
      "1", "0", "8", "0", "p", ".", "m", "k", "v">>

FileNames ==
    NamesUpTo(MaxNameLen)
       \cup {name \o <<".", "m", "k", "v">> : name \in NamesUpTo(MaxNameLen - 1)}
       \cup {SampleName}

\* the batches: empty, a first document without a name, a first document with
\* a name (the empty name included)
NameBatches ==
    {<<>>, <<UnnamedFile>>}
       \cup {<<[file_id |-> <<"1">>, file_name |-> name]>> : name \in FileNames}

\* the admin's /addpost session has received the batch
InitExtract ==
    /\ data = EmptyData
    /\ file = SavedFile(EmptyData)
    /\ call = "load_data"
    /\ ret = TRUE
    /\ posts = <<>>
    /\ blogs = <<>>
    /\ dbfiles = <<>>
    /\ channel = <<>>
    /\ reply = "image_saved"
    /\ query = <<>>
    /\ results = <<>>
    /\ conv = [u \in Users |->
                 [f \in FamilyNames |-> IF u = Admin /\ f = "addpost" THEN "FILES" ELSE END]]
    /\ \E batch \in NameBatches :
          userdata = [u \in Users |->
                        IF u = Admin
                        THEN [channel_link |-> <<"@", "c">>, image_file_id |-> "img_id",
                              image_path |-> "img", files |-> batch]
                        ELSE NoFields]
    /\ replydata = FALSE
    /\ users = <<>>
    /\ broadcast = NoBroadcast
    /\ process = Serving

\* finalize_post line 337: the title is extracted from the files of the session
extract_drama_name(u) ==
    /\ conv[u].addpost = "FILES"
    /\ call' = "extract_drama_name"
    /\ ret' = ExtractDramaName(Get(userdata[u], "files", <<>>))
    /\ UNCHANGED <<data, file, botVars>>

NextExtract == \E u \in Users : extract_drama_name(u)

SpecExtract == InitExtract /\ [][NextExtract]_vars

----------------------------------------------------------------------------
(* Start of the process: `python bot.py` *)

RequiredVars == <<"BOT_TOKEN", "MONGO_URI", "ADMIN_IDS">>

\* `not os.getenv(var)`: the variable is not set or set to the empty string
Falsy(v) == ~v.set \/ v.value = <<>>

\* str.split(","): the parts between the commas
RECURSIVE SplitFrom(_, _)
SplitFrom(s, part) ==
    IF s = <<>> THEN <<part>>
    ELSE IF Head(s) = "," THEN <<part>> \o SplitFrom(Tail(s), <<>>)
    ELSE SplitFrom(Tail(s), Append(part, Head(s)))

Split(s) == SplitFrom(s, <<>>)

\* int(text) accepts the text: decimal digits (signs and underscores are not
\* among the values tried)
IsInt(text) == text # <<>> /\ \A i \in 1..Len(text) : IsDigit(text[i])

\* config.py lines 58-67: the comprehension raises on a part that is no number,
\* and an empty list raises too
ValidAdminIds(admin_ids_str) ==
    LET parts == Split(admin_ids_str)
        ids == {i \in 1..Len(parts) : Strip(parts[i]) # <<>>}
    IN /\ \A i \in ids : IsInt(Strip(parts[i]))
       /\ ids # {}

\* the process ends with the exit status, its last report naming the variables
Exit(code, named) ==
    process' = [process EXCEPT !.pc = "exited", !.exited = TRUE,
                               !.exit_code = code, !.named = named]

\* bot.py line 9 imports config, whose module body (lines 21-67) raises
\* ValueError at the first variable it finds wrong; nothing catches it, the
\* interpreter prints the traceback with that one message and exits with 1
import_config ==
    /\ process.pc = "import_config"
    /\ LET env == process.env
       IN IF Falsy(env.BOT_TOKEN) THEN Exit(1, <<"BOT_TOKEN">>)
          ELSE IF Falsy(env.MONGO_URI) THEN Exit(1, <<"MONGO_URI">>)
          ELSE IF Falsy(env.ADMIN_IDS) \/ ~ValidAdminIds(env.ADMIN_IDS.value)
          THEN Exit(1, <<"ADMIN_IDS">>)
          ELSE process' = [process EXCEPT !.pc = "main"]
    /\ UNCHANGED serviceVars

\* [var for var in required_vars if not os.getenv(var)]
RECURSIVE MissingVars(_, _)
MissingVars(required_vars, env) ==
    IF required_vars = <<>> THEN <<>>
    ELSE (IF Falsy(env[Head(required_vars)]) THEN <<Head(required_vars)>> ELSE <<>>)
            \o MissingVars(Tail(required_vars), env)

\* main, lines 885-896
main ==
    /\ process.pc = "main"
    /\ LET missing_vars == MissingVars(RequiredVars, process.env)
       IN IF missing_vars # <<>> THEN Exit(1, missing_vars)
          ELSE process' = [process EXCEPT !.pc = "DramawallahBot"]
    /\ UNCHANGED serviceVars

\* main, lines 899-905: DramawallahBot() calls setup_handlers, which uses the
\* name CallbackQueryHandler that bot.py never imports; the NameError is
\* caught by main, which reports the crash and exits with 1
construct_bot ==
    /\ process.pc = "DramawallahBot"
    /\ Exit(1, <<>>)
    /\ UNCHANGED serviceVars

\* values of the three variables in the environment of the process
Environments ==
    [BOT_TOKEN : {Unset, Set(<<>>), Set(<<"1", ":", "t">>)},
     MONGO_URI : {Unset, Set(<<>>), Set(<<"m", "o", "n", "g", "o", "d", "b", ":", "/", "/", "h">>),
                  Set(<<"h", "t", "t", "p", ":", "/", "/", "h">>)},
     ADMIN_IDS : {Unset, Set(<<>>), Set(<<"1">>), Set(<<"1", ",", " ", "2">>),
                  Set(<<"x">>), Set(<<",">>)}]

InitStartup ==
    /\ data = EmptyData
    /\ file = SavedFile(EmptyData)
    /\ call = "load_data"
    /\ ret = TRUE
    /\ posts = <<>>
    /\ blogs = <<>>
    /\ dbfiles = <<>>
    /\ channel = <<>>
    /\ reply = "none"
    /\ query = <<>>
    /\ results = <<>>
    /\ conv = [u \in Users |-> [f \in FamilyNames |-> END]]
    /\ userdata = [u \in Users |-> NoFields]
    /\ replydata = TRUE
    /\ users = <<>>
    /\ broadcast = NoBroadcast
    /\ \E env \in Environments :
          process = [env |-> env, pc |-> "import_config", exited |-> FALSE,
                     exit_code |-> 0, named |-> <<>>]

NextStartup == import_config \/ main \/ construct_bot

SpecStartup == InitStartup /\ [][NextStartup]_vars

\* batches of two different documents, the second without a file name
BatchDocuments == {NamedFile, UnnamedFile}
Batches ==
    {<<>>} \cup {<<d>> : d \in BatchDocuments} \cup (BatchDocuments \X BatchDocuments)

\* the outcomes that differ in what process_files returns: a link is shortened
\* only when it was resolved, and a file whose insert raises leaves no record
\* whatever became of its links
BatchOutcomes ==
    {os \in OutcomeLists :
        \A i \in 1..Len(os) : /\ os[i].shortened => os[i].resolved
                              /\ os[i].resolved => os[i].stored}

\* the /addpost conversation of the admin, with every way the calls that
\* process_files makes for a file can end; the channel takes every file
NextPipeline ==
    \/ cancel(Admin)
    \/ start_addpost(Admin)
    \/ get_channel_link(Admin, <<"@", "c">>)
    \/ get_image(Admin, TRUE)
    \/ \E document \in BatchDocuments :
          RoomFor(Admin, document, Batches) /\ get_files(Admin, document)
    \/ \E cbdata \in {"more_files", "finish_files"} :
          /\ Dispatch(Admin, CallbackUpdate(cbdata)).handler = "handle_file_decision"
          /\ \E os \in BatchOutcomes, now \in Times :
                handle_file_decision(Admin, cbdata, os, 0, now)

SpecPipeline == Init /\ [][NextPipeline]_vars

----------------------------------------------------------------------------
(* Notions the properties are stated with *)

\* the four content sequences of a document
Content(d) == [k \in ContentSections |-> d[k]]

\* the lower-cased title of a record or of a search_data entry
TitleKey(r) == Lower(Get(r, "title", <<>>))

\* item i is the first item of items with its lower-cased title
IsFirstOfTitle(items, i) ==
    \A j \in 1..(i - 1) : TitleKey(items[j]) # TitleKey(items[i])

\* the items of items at the indices in keep, in order
Pick(items, keep) ==
    LET F[i \in 0..Len(items)] ==
            IF i = 0 THEN <<>>
            ELSE IF i \in keep THEN Append(F[i - 1], items[i]) ELSE F[i - 1]
    IN F[Len(items)]

\* the index of the first record of s whose title is post_title ignoring case
IsFirstMatch(s, post_title, i) ==
    /\ i \in 1..Len(s)
    /\ TitleKey(s[i]) = Lower(post_title)
    /\ \A j \in 1..(i - 1) : TitleKey(s[j]) # Lower(post_title)

\* the order in which duplicates are met
MeetingOrder == <<"ongoing_dramas", "all_posts", "blog_posts", "home_posts">>

\* the search_data entry of record r of a section
ProjectOf(section, r) ==
    CASE section = "ongoing_dramas" -> ProjectOngoing(r)
      [] section = "all_posts" -> ProjectAllPosts(r)
      [] section = "blog_posts" -> ProjectBlog(r)
      [] section = "home_posts" -> ProjectHome(r)

SectionItems(d, k) == [i \in 1..Len(d[k]) |-> ProjectOf(k, d[k][i])]

\* the entries of all content records in meeting order
Met(d) ==
    SectionItems(d, MeetingOrder[1]) \o SectionItems(d, MeetingOrder[2])
    \o SectionItems(d, MeetingOrder[3]) \o SectionItems(d, MeetingOrder[4])

\* s without its record at index i
Without(s, i) == [j \in 1..(Len(s) - 1) |-> IF j < i THEN s[j] ELSE s[j + 1]]

\* new is old without one of its records
IsRemoval(old, new) == \E i \in 1..Len(old) : new = Without(old, i)

----------------------------------------------------------------------------
(* C1 *)

\* C1 as stated: search_data is the projection of the four content sequences
\* with, for every lower-cased title, only the first item kept; it holds
\* nothing else and misses no title of the content.
C1_SearchDataIsDedupProjection ==
    LET p == Projection(data)
    IN /\ data.search_data = Pick(p, {i \in 1..Len(p) : IsFirstOfTitle(p, i)})
       /\ \A k \in ContentSections : \A i \in 1..Len(data[k]) :
             \E j \in 1..Len(data.search_data) :
                TitleKey(data.search_data[j]) = TitleKey(data[k][i])

\* C1 amended: after any sequence of add_to_section, move_post and
\* update_search_data calls from the empty document, search_data is the
\* projection of the records that have a non-empty title, with only the first
\* item of every lower-cased title kept: every entry is derived from a content
\* record, and every non-empty title of the content is in it.
C1_SearchDataIsDedupProjectionOfTitled ==
    LET p == Projection(data)
    IN /\ data.search_data =
             Pick(p, {i \in 1..Len(p) : TitleKey(p[i]) # <<>> /\ IsFirstOfTitle(p, i)})
       /\ \A j \in 1..Len(data.search_data) :
             \E i \in 1..Len(p) : data.search_data[j] = p[i]
       /\ \A k \in ContentSections : \A i \in 1..Len(data[k]) :
             TitleKey(data[k][i]) # <<>> =>
                \E j \in 1..Len(data.search_data) :
                   TitleKey(data.search_data[j]) = TitleKey(data[k][i])

\* a move has succeeded and two records with the same lower-cased title are
\* held, of which search_data has one
C1_Witness ==
    /\ call = "move_post" /\ ret = TRUE
    /\ Len(data.all_posts) = 1 /\ Len(data.home_posts) = 1
    /\ "moved_from" \in DOMAIN data.all_posts[1]
    /\ TitleKey(data.all_posts[1]) = TitleKey(data.home_posts[1])
    /\ TitleKey(data.all_posts[1]) # <<>>
    /\ data.search_data = <<ProjectAllPosts(data.all_posts[1])>>

----------------------------------------------------------------------------
(* C2 *)

\* C2 as stated: of the records that share a lower-cased title, search_data
\* holds exactly one, the first met in the order ongoing, all posts, blog, home.
C2_FirstOfEveryTitleKept ==
    LET p == Met(data)
    IN \A i \in 1..Len(p) :
          IsFirstOfTitle(p, i) =>
             /\ Cardinality({j \in 1..Len(data.search_data) :
                    TitleKey(data.search_data[j]) = TitleKey(p[i])}) = 1
             /\ \E j \in 1..Len(data.search_data) : data.search_data[j] = p[i]

\* C2 amended: of the records that share a non-empty lower-cased title,
\* search_data holds exactly one, the first met in the order ongoing, all posts,
\* blog, home (front to back inside a section), so an ongoing copy wins over a
\* home copy; records with an empty or missing title are all dropped.
C2_FirstOfEveryNonEmptyTitleKept ==
    LET p == Met(data)
    IN /\ \A i \in 1..Len(p) :
             (IsFirstOfTitle(p, i) /\ TitleKey(p[i]) # <<>>) =>
                /\ Cardinality({j \in 1..Len(data.search_data) :
                       TitleKey(data.search_data[j]) = TitleKey(p[i])}) = 1
                /\ \E j \in 1..Len(data.search_data) : data.search_data[j] = p[i]
       /\ \A i \in 1..Len(data.ongoing_dramas), h \in 1..Len(data.home_posts) :
             (/\ TitleKey(data.ongoing_dramas[i]) = TitleKey(data.home_posts[h])
              /\ TitleKey(data.home_posts[h]) # <<>>) =>
                \A j \in 1..Len(data.search_data) :
                   TitleKey(data.search_data[j]) = TitleKey(data.home_posts[h])
                      => data.search_data[j].category = "ongoing"
       /\ \A j \in 1..Len(data.search_data) : TitleKey(data.search_data[j]) # <<>>

\* an ongoing record and a home record share a title and search_data holds the
\* ongoing copy
C2_Witness ==
    /\ Len(data.ongoing_dramas) = 1 /\ Len(data.home_posts) = 1
    /\ TitleKey(data.ongoing_dramas[1]) = TitleKey(data.home_posts[1])
    /\ TitleKey(data.ongoing_dramas[1]) # <<>>
    /\ Get(data.ongoing_dramas[1], "title", <<>>) # Get(data.home_posts[1], "title", <<>>)
    /\ Len(data.search_data) = 1
    /\ data.search_data[1].category = "ongoing"

----------------------------------------------------------------------------
(* Documents load_data reads from an existing file *)

LoadedHome == [title |-> <<"a">>, timestamp |-> "t0"]
LoadedOngoing == [title |-> <<"A">>, excerpt |-> <<"b">>, timestamp |-> "t0"]

\* search_data as the file may hold it: derived, stale, or not deduplicated
LoadedSearchData ==
    { <<>>,
      <<ProjectAllPosts([title |-> <<"b">>])>>,
      <<ProjectHome(LoadedHome), ProjectOngoing(LoadedOngoing)>> }

LoadedDocs ==
    { [home_posts |-> h, ongoing_dramas |-> o, blog_posts |-> <<>>,
       all_posts |-> <<>>, search_data |-> sd] :
         h \in {<<>>, <<LoadedHome>>}, o \in {<<>>, <<LoadedOngoing>>},
         sd \in LoadedSearchData }

\* the state after construction when the data file exists (lines 14-15)
InitLoaded ==
    /\ data \in LoadedDocs
    /\ file = data
    /\ call = "load_data"
    /\ ret = TRUE
    /\ posts = <<>>
    /\ blogs = <<>>
    /\ dbfiles = <<>>
    /\ channel = <<>>
    /\ reply = "none"
    /\ query = <<>>
    /\ results = <<>>
    /\ NoSessions

SpecLoaded == InitLoaded /\ [][Next]_vars

----------------------------------------------------------------------------
(* C3 *)

\* C3: update_search_data changes none of the four content sequences, and a
\* call that directly follows another update_search_data call leaves the whole
\* document, search_data included, as the first call left it.
C3_UpdateSearchDataIdempotent ==
    [][call' = "update_search_data" =>
          /\ Content(data') = Content(data)
          /\ call = "update_search_data" => data' = data]_vars

\* update_search_data has returned on a document whose recomputed search_data
\* is shorter than the content
C3_Witness ==
    /\ call = "update_search_data" /\ ret = TRUE
    /\ data.search_data # <<>>
    /\ Len(data.search_data) < NumRecords(data)

----------------------------------------------------------------------------
(* C4 *)

\* C4: a move_post call made when no record of from_section has the title,
\* ignoring case, returns False and leaves the document and the file as they
\* were.
C4_MoveNotFoundChangesNothing ==
    [][call' = "move_post" =>
          \A f \in FromSections, ti \in InputTitles :
             (f \in DOMAIN data =>
                 \A i \in 1..Len(data[f]) : TitleKey(data[f][i]) # Lower(ti))
             => \A s \in ToSections, t \in Times :
                   MovePost(f, s, ti, t) =>
                      (ret' = FALSE /\ data' = data /\ file' = file)]_vars

\* move_post has failed on a document that holds records
C4_Witness ==
    /\ call = "move_post" /\ ret = FALSE
    /\ data.ongoing_dramas # <<>>
    /\ data.search_data # <<>>

----------------------------------------------------------------------------
(* C5 *)

\* C5: a move_post call between content sequences that finds the title in
\* from_section returns True, takes the first matching record out of
\* from_section and puts it, marked with moved_from = from_section, at index 0
\* of to_section; the other records of both keep their order and the other
\* content sequences are unchanged.
C5_MoveFoundMovesFirstMatch ==
    [][call' = "move_post" =>
          \A f \in FromSections \cap ContentSections, ti \in InputTitles :
          \A i \in 1..Len(data[f]) :
          IsFirstMatch(data[f], ti, i) =>
          \A s \in ToSections \cap ContentSections, t \in Times :
             MovePost(f, s, ti, t) =>
                /\ ret' = TRUE
                /\ data'[s] # <<>>
                /\ Get(Head(data'[s]), "moved_from", "") = f
                /\ \A k \in DOMAIN data[f][i] \ {"timestamp", "moved_from"} :
                      /\ k \in DOMAIN Head(data'[s])
                      /\ Head(data'[s])[k] = data[f][i][k]
                /\ IF f = s
                   THEN Tail(data'[s]) = Without(data[f], i)
                   ELSE /\ data'[f] = Without(data[f], i)
                        /\ Tail(data'[s]) = data[s]
                /\ \A k \in ContentSections \ {f, s} : data'[k] = data[k]]_vars

\* a record has been moved out of a sequence that keeps another record
C5_Witness ==
    /\ call = "move_post" /\ ret = TRUE
    /\ data.all_posts # <<>>
    /\ Get(data.all_posts[1], "moved_from", "") = "ongoing_dramas"
    /\ data.ongoing_dramas # <<>>

----------------------------------------------------------------------------
(* C6 *)

\* C6: add_to_section on one of the four content sequences returns True, puts
\* the record at index 0, keeps the previous records after it in their order
\* and leaves the other three content sequences unchanged; and no step of any
\* operation puts a record anywhere but at the front of a content sequence or
\* reorders the records already there.
C6_AddInsertsAtFront ==
    [][/\ \A s \in ContentSections, r \in InputRecords, t \in Times :
             (call' = "add_to_section" /\ AddToSection(s, r, t)) =>
                /\ ret' = TRUE
                /\ data'[s] # <<>>
                /\ \A k \in DOMAIN r :
                      k \in DOMAIN Head(data'[s]) /\ Head(data'[s])[k] = r[k]
                /\ Tail(data'[s]) = data[s]
                /\ \A k \in ContentSections \ {s} : data'[k] = data[k]
       /\ \A k \in ContentSections :
             \/ data'[k] = data[k]
             \/ IsRemoval(data[k], data'[k])
             \/ /\ data'[k] # <<>>
                /\ \/ Tail(data'[k]) = data[k]
                   \/ IsRemoval(data[k], Tail(data'[k]))]_vars

\* add_to_section has put a record in front of an earlier one
C6_Witness ==
    /\ call = "add_to_section" /\ ret = TRUE
    /\ Len(data.blog_posts) = 2
    /\ Get(data.blog_posts[1], "title", <<>>) # Get(data.blog_posts[2], "title", <<>>)

----------------------------------------------------------------------------
(* C7 *)

\* C7: add_to_section with a section name that is not one of the four content
\* sequences ("search_data" included) returns False and leaves the document
\* and the file as they were.
C7_AddToOtherSectionFails ==
    [][\A s \in SectionNames \ ContentSections, r \in InputRecords, t \in Times :
          AddToSection(s, r, t) =>
             (ret' = FALSE /\ data' = data /\ file' = file)]_vars

----------------------------------------------------------------------------
(* C8 *)

SpecCommit == InitLoaded /\ [][NextCommit]_vars

\* C8: whenever a handler has returned, the snapshot file holds a complete
\* document equal to the in-memory one, also after a publish or blog commit
\* handed the stored record to the database insert.
C8_FileEqualsData == file = data

----------------------------------------------------------------------------
(* C9, C10 *)

\* the records of the four content sequences in the order the search meets them
Candidates(d) ==
    LET Of(section) == [i \in 1..Len(d[section]) |->
                           [item |-> d[section][i], section |-> section]]
    IN Of("home_posts") \o Of("ongoing_dramas") \o Of("all_posts") \o Of("blog_posts")

\* the title, excerpt or body of the record contains q, letter case aside
HasText(item, q) ==
    \E k \in {"title", "excerpt", "content"} : Contains(Lower(Get(item, k, <<>>)), q)

\* 10 for q in the title, 5 more for the title being q, 3 for q in the
\* excerpt, 1 for q in the body
ScoreFor(item, q) ==
    LET In(k) == Contains(Lower(Get(item, k, <<>>)), q)
    IN (IF In("title") THEN 10 ELSE 0)
       + (IF Lower(Get(item, "title", <<>>)) = q THEN 5 ELSE 0)
       + (IF In("excerpt") THEN 3 ELSE 0)
       + (IF In("content") THEN 1 ELSE 0)

\* the up to TopN first records that contain q, by descending score and, among
\* equal scores, in the order met; each with its section and score
TopByScore(d, q) ==
    LET c == Candidates(d)
        hits == {j \in 1..Len(c) : HasText(c[j].item, q)}
        Before(i, j) ==
            \/ ScoreFor(c[i].item, q) > ScoreFor(c[j].item, q)
            \/ ScoreFor(c[i].item, q) = ScoreFor(c[j].item, q) /\ i < j
        Rank(j) == 1 + Cardinality({i \in hits : Before(i, j)})
        n == IF Cardinality(hits) < TopN THEN Cardinality(hits) ELSE TopN
    IN [k \in 1..n |->
          LET j == CHOOSE j \in hits : Rank(j) = k
          IN Put(Put(c[j].item, "category", c[j].section),
                 "match_score", ScoreFor(c[j].item, q))]

\* C9 as stated: search_content returns the records that contain the
\* lower-cased query, by descending score, equal scores in the order met, the
\* first 10 of them at most.
C9_TopTenOfLowerCasedQuery ==
    call = "search_content" => results = TopByScore(data, Lower(query))

\* C9 as stated, its first part alone: every record returned contains the
\* lower-cased query in its title, excerpt or body.
C9_OnlyRecordsWithLowerCasedQuery ==
    call = "search_content" =>
        \A k \in 1..Len(results) : HasText(results[k], Lower(query))

\* C9: search_content returns nothing when the query, lower-cased and with the
\* surrounding whitespace removed, is empty; otherwise it returns the records
\* of the four content sequences that contain that lower-cased, trimmed query,
\* by descending score, equal scores in the order met, the first 10 at most.
C9_TopTenOfTrimmedQuery ==
    call = "search_content" =>
        results = IF Strip(Lower(query)) = <<>> THEN <<>>
                  ELSE TopByScore(data, Strip(Lower(query)))

\* more than 10 records match a padded query; the 10 returned hold equal
\* scores from different sections and a drop in score
C9_Witness ==
    /\ call = "search_content"
    /\ query # Strip(Lower(query))
    /\ Len(results) = TopN
    /\ Cardinality({j \in 1..Len(Candidates(data)) :
                      HasText(Candidates(data)[j].item, Strip(Lower(query)))}) > TopN
    /\ \E k \in 1..(TopN - 1) :
          /\ results[k].match_score = results[k + 1].match_score
          /\ results[k].category # results[k + 1].category
    /\ \E k \in 1..(TopN - 1) : results[k].match_score > results[k + 1].match_score

\* C10: every record returned carries the score 10 for the query in the title,
\* plus 5 for the title being the query, plus 3 for the query in the excerpt,
\* plus 1 for the query in the body; an exact title match alone scores 15, a
\* title-substring match alone 10, an excerpt match alone 3.
C10_MatchScore ==
    /\ call = "search_content" =>
          \A k \in 1..Len(results) :
             results[k].match_score = ScoreFor(results[k], Strip(Lower(query)))
    /\ \A q \in {<<"a">>, <<"b", "a">>} :
          /\ CalculateMatchScore(q, q, <<>>, <<>>) = 15
          /\ CalculateMatchScore(q, <<"c">> \o q \o <<"c">>, <<>>, <<>>) = 10
          /\ CalculateMatchScore(q, <<"c">>, q, <<>>) = 3

\* one search returned an exact title match, a title-substring match, an
\* excerpt-only match and a body-only match
C10_Witness ==
    /\ call = "search_content"
    /\ \E k \in 1..Len(results) :
          /\ Lower(Get(results[k], "title", <<>>)) = Strip(Lower(query))
          /\ results[k].match_score = 15
    /\ \E k \in 1..Len(results) : results[k].match_score = 10
    /\ \E k \in 1..Len(results) : results[k].match_score = 3
    /\ \E k \in 1..Len(results) : results[k].match_score = 1

----------------------------------------------------------------------------
(* C11, C12, C13 *)

\* the text names a channel: it starts with "@" or contains "t.me/"
NamesChannel(text) ==
    \/ text # <<>> /\ Head(text) = "@"
    \/ \E i \in 1..(Len(text) - 4) : SubSeq(text, i, i + 4) = <<"t", ".", "m", "e", "/">>

\* user u's /addpost conversation accepted the link and waits for the image
LinkAccepted(u, link) ==
    /\ userdata'[u] = Put(userdata[u], "channel_link", link)
    /\ conv'[u].addpost = "IMAGE"

\* user u's conversation family stays in state and no session field is written
Reprompted(u, family, state) ==
    /\ conv'[u][family] = state
    /\ userdata' = userdata

\* C11 as stated: in CHANNEL_LINK a text that starts with "@" or contains
\* "t.me/" stores the channel link and moves the session to IMAGE; every other
\* text leaves the session in CHANNEL_LINK and stores nothing.
C11_ChannelLinkAccepted ==
    [][\A u \in Users, text \in Texts :
          get_channel_link(u, text) =>
             IF NamesChannel(text) THEN LinkAccepted(u, Strip(text))
             ELSE Reprompted(u, "addpost", "CHANNEL_LINK")]_vars

\* C11: in CHANNEL_LINK a text that, with its surrounding whitespace removed,
\* starts with "@" or contains "t.me/" stores that trimmed text as channel link
\* and moves the session to IMAGE; every other text leaves the session in
\* CHANNEL_LINK and stores nothing.
C11_TrimmedChannelLinkAccepted ==
    [][\A u \in Users, text \in Texts :
          get_channel_link(u, text) =>
             IF NamesChannel(Strip(text)) THEN LinkAccepted(u, Strip(text))
             ELSE Reprompted(u, "addpost", "CHANNEL_LINK")]_vars

\* a "t.me/" link was accepted and the session waits for the image
C11_Witness ==
    /\ conv[Admin].addpost = "IMAGE"
    /\ reply = "channel_saved"
    /\ userdata[Admin].channel_link = <<"t", ".", "m", "e", "/">>

\* C12: in ONGOING_CHANNEL a text that neither starts with "@" nor contains
\* "t.me/" is rejected: the session stays in ONGOING_CHANNEL and no channel
\* link is stored.
C12_OngoingChannelLinkRejected ==
    [][\A u \in Users, text \in FewTexts :
          (get_ongoing_channel(u, text) /\ ~NamesChannel(text) /\ ~NamesChannel(Strip(text)))
             => Reprompted(u, "ongoing", "ONGOING_CHANNEL")]_vars

\* C13: a finish action of a publish session whose file list is empty is
\* rejected, and the posts and files collections and the snapshot document
\* and file stay as they are.
C13_EmptyFinishRejected ==
    [][\A u \in Users, os \in SessionOutcomes, k \in 0..1, now \in Times :
          (/\ Get(userdata[u], "files", <<>>) = <<>>
           /\ handle_file_decision(u, "finish_files", os, k, now))
             => /\ reply' = "no_files"
                /\ conv'[u].addpost = END
                /\ posts' = posts /\ dbfiles' = dbfiles /\ channel' = channel
                /\ data' = data /\ file' = file]_vars

\* after a post was committed, the finish button pressed in a new session
\* without files was rejected
C13_Witness ==
    /\ reply = "no_files"
    /\ conv[Admin].addpost = END
    /\ Len(posts) = 1 /\ Len(data.all_posts) = 1 /\ Len(dbfiles) > 0

----------------------------------------------------------------------------
(* C14, C15 *)

\* no stored post counts 0 files and no stored blog has an empty body
NoEmptyArtifact ==
    /\ \A i \in 1..Len(posts) : posts[i].files_count > 0
    /\ \A i \in 1..Len(blogs) : blogs[i].content # <<>>
    /\ \A section \in ContentSections : \A i \in 1..Len(data[section]) :
          /\ Get(data[section][i], "files_count", 1) > 0
          /\ Get(data[section][i], "content", <<"x">>) # <<>>

\* user u presses the finish button of the /addpost conversation
FinishPost(u) ==
    \E os \in SessionOutcomes, k \in 0..1, now \in Times :
        handle_file_decision(u, "finish_files", os, k, now)

\* user u presses the finish button of the /ongoing conversation
FinishOngoingFiles(u) ==
    \E os \in SessionOutcomes, k \in 0..1, now \in Times :
        handle_ongoing_files_decision(u, "finish_ongoing_files", os, k, now)

\* user u presses the finish button of the /blog conversation
FinishBlog(u) == \E now \in Times : handle_blog_more_text(u, "finish_blog", now)

AdminCommand(u) ==
    start_addpost(u) \/ start_ongoing(u) \/ start_blog(u) \/ start_broadcast(u)

\* C15: an admin-only command (/addpost, /ongoing, /blog, /broadcast) of a user
\* who is not in the admin list is rejected, enters no conversation state and
\* writes no session field; such a user never has a conversation in progress.
C15_AdminOnly ==
    [][\A u \in Users \ ADMIN_IDS :
          /\ AdminCommand(u) =>
                /\ reply' = "admins_only"
                /\ conv' = conv
                /\ userdata' = userdata
                /\ UNCHANGED storeVars
          /\ \A family \in FamilyNames : conv'[u][family] = END
          /\ userdata'[u] = NoFields]_vars

\* a user outside the admin list was turned away while the admin's
\* conversation is in progress
C15_Witness ==
    /\ reply = "admins_only"
    /\ conv[Admin].addpost = "FILES"
    /\ \A family \in FamilyNames : conv[Guest][family] = END

----------------------------------------------------------------------------
(* C16, C17, C18, C19, C20 *)

\* C16: /cancel ends the conversation of every family the user has in
\* progress and empties the user's session fields, and the fields are already
\* empty when the acknowledgment is sent.
C16_CancelEndsEverySession ==
    [][\A u \in Users :
          cancel(u) =>
             /\ \A family \in FamilyNames : conv'[u][family] = END
             /\ userdata'[u] = NoFields
             /\ replydata']_vars

\* C17: after a handler has reported an internal error, the conversation is
\* ended and the session fields of the admin it was reported to are empty.
C17_ErrorEndsAndClears ==
    reply = "error" =>
       \A u \in ADMIN_IDS : conv[u].addpost = END /\ userdata[u] = NoFields

\* C18: when a conversation ends without an internal error (commit, rejected
\* commit or cancel), the user's session fields are empty afterwards.
C18_EndedSessionLeavesNoFields ==
    [][\A u \in Users :
          (conv[u].addpost # END /\ conv'[u].addpost = END /\ reply' # "error")
             => userdata'[u] = NoFields]_vars

\* the session fields only the handlers of one family write
OwnFields ==
    [addpost |-> {"image_file_id", "image_path"},
     ongoing |-> {"ongoing_action"}]

\* the session fields of the given keys are the same before and after the step
Kept(u, keys) ==
    \A k \in keys \cap DOMAIN userdata[u] :
       k \in DOMAIN userdata'[u] /\ userdata'[u][k] = userdata[u][k]

\* the step is an update of user u handled by the /addpost conversation
AddpostStep(u) ==
    \/ cancel(u) /\ Dispatch(u, CommandUpdate("cancel")).family = "addpost"
    \/ \E text \in FewTexts : get_channel_link(u, text)
    \/ get_image(u, TRUE)
    \/ \E document \in Documents : get_files(u, document)
    \/ \E cbdata \in {"more_files", "finish_files"}, os \in SessionOutcomes, now \in Times :
          handle_file_decision(u, cbdata, os, 0, now)

\* the step is an update of user u handled by the /ongoing conversation
OngoingStep(u) ==
    \/ cancel(u) /\ Dispatch(u, CommandUpdate("cancel")).family = "ongoing"
    \/ \E cbdata \in {"add_ongoing", "edit_ongoing"} : handle_ongoing_choice(u, cbdata)
    \/ \E text \in FewTexts : get_ongoing_channel(u, text)
    \/ \E document \in Documents : get_ongoing_files(u, document)
    \/ \E cbdata \in {"more_ongoing_files", "finish_ongoing_files"},
          os \in SessionOutcomes, now \in Times :
          handle_ongoing_files_decision(u, cbdata, os, 0, now)
    \/ \E cbdata \in {"yes_complete", "no_complete"}, now \in Times :
          handle_ongoing_completion(u, cbdata, now)

\* C19: while a user has an /addpost and an /ongoing conversation in progress,
\* an update handled by one of them (its /cancel and its commit included)
\* neither changes nor discards the fields that only the other one writes.
C19_FamiliesKeepApart ==
    [][\A u \in Users :
          (conv[u].addpost # END /\ conv[u].ongoing # END) =>
             /\ AddpostStep(u) => Kept(u, OwnFields.ongoing)
             /\ OngoingStep(u) => Kept(u, OwnFields.addpost)]_vars

\* C20: /addpost from a user whose /addpost conversation is in progress
\* starts a fresh session: the conversation is back in CHANNEL_LINK.
C20_AddpostReplacesSession ==
    [][\A u \in ADMIN_IDS :
          (/\ conv[u].addpost # END
           /\ start_addpost(u) \/ ignored(u, CommandUpdate("addpost")))
             => conv'[u].addpost = "CHANNEL_LINK"]_vars

----------------------------------------------------------------------------
(* C21, C22, C23 *)

\* the file ids of the records in a list
FileIds(records) == [i \in 1..Len(records) |-> records[i].file_id]

\* the file ids of the files whose outcome has the flag, in the order of the
\* batch
RECURSIVE PickedIds(_, _, _)
PickedIds(files, outcomes, flag) ==
    IF files = <<>> THEN <<>>
    ELSE (IF Head(outcomes)[flag] THEN <<Head(files).file_id>> ELSE <<>>)
            \o PickedIds(Tail(files), Tail(outcomes), flag)

\* the records a step appended to the files collection
NewFiles == SubSeq(dbfiles', Len(dbfiles) + 1, Len(dbfiles'))

\* the step is the finish of the admin's batch with the given outcomes
FinishBatch(os) ==
    /\ conv[Admin].addpost = "FILES"
    /\ Len(os) = Len(Get(userdata[Admin], "files", <<>>))
    /\ os # <<>>
    /\ call' = "finalize_post"
    /\ Len(dbfiles') = Len(dbfiles) + Len(PickedIds(userdata[Admin].files, os, "stored"))
    /\ \E k \in 0..1, now \in Times : handle_file_decision(Admin, "finish_files", os, k, now)

\* C21: with the database accepting every insert, the pipeline persists file
\* records for exactly the references whose direct link was resolved, in the
\* order of the batch; a reference whose resolution failed yields no record.
C21_RecordsOfResolvedOnly ==
    [][\A os \in BatchOutcomes :
          (FinishBatch(os) /\ \A i \in 1..Len(os) : os[i].stored)
             => /\ dbfiles' = dbfiles \o NewFiles
                /\ FileIds(NewFiles) = PickedIds(userdata[Admin].files, os, "resolved")]_vars

\* C22: a failure of the shortening service drops no item and leaves none
\* without a download link: the pipeline persists a record for every
\* reference whose insert is accepted, in the order of the batch, whether or
\* not its link was shortened, and the shortened link of a record with a
\* resolved direct link is the shortener's result or, when shortening failed,
\* exactly the direct link.
C22_ShortenerFailureKeepsItem ==
    [][\A os \in BatchOutcomes :
          FinishBatch(os) =>
             /\ dbfiles' = dbfiles \o NewFiles
             /\ FileIds(NewFiles) = PickedIds(userdata[Admin].files, os, "stored")
             /\ \A i \in 1..Len(NewFiles) :
                   LET r == NewFiles[i]
                   IN r.direct_link.link # None =>
                         /\ r.shortened_link.link # None
                         /\ \/ r.shortened_link = [link |-> "short", file_id |-> r.file_id]
                            \/ r.shortened_link = r.direct_link
                         /\ (\A j \in 1..Len(os) : ~os[j].shortened)
                               => r.shortened_link = r.direct_link]_vars

\* a batch of two was processed while the shortening service was down: both
\* records are stored, each with its direct link as download link
C22_Witness ==
    /\ call = "finalize_post"
    /\ Len(dbfiles) = 2
    /\ dbfiles[1].file_id # dbfiles[2].file_id
    /\ \A i \in 1..2 : /\ dbfiles[i].direct_link.link = "direct"
                       /\ dbfiles[i].shortened_link = dbfiles[i].direct_link

\* every insert of the batch raises
NoneStored(files) == [i \in 1..Len(files) |-> NotStored]

\* C23: when the pipeline returns an empty list for a non-empty batch, the
\* publish finish and the ongoing-edit finish stop: a failure is reported,
\* nothing is posted to the channel, no post is written and the conversation
\* ends instead of moving on.
C23_EmptyPipelineStops ==
    [][\A u \in Users :
          LET files == Get(userdata[u], "files", <<>>)
          IN /\ (/\ conv[u].addpost = "FILES"
                 /\ files # <<>>
                 /\ \E now \in Times :
                       handle_file_decision(u, "finish_files", NoneStored(files), 0, now))
                   => /\ reply' = "process_failed"
                      /\ conv'[u].addpost = END
                      /\ channel' = channel /\ posts' = posts /\ data' = data
             /\ (/\ conv[u].ongoing = "ONGOING_FILES"
                 /\ files # <<>>
                 /\ \E now \in Times :
                       handle_ongoing_files_decision(u, "finish_ongoing_files",
                                                     NoneStored(files), 0, now))
                   => /\ reply' # "files_added"
                      /\ conv'[u].ongoing = END
                      /\ channel' = channel /\ posts' = posts /\ data' = data]_vars

----------------------------------------------------------------------------
(* C24 *)

\* the number of users of the list the bot cannot reach
RECURSIVE Unreached(_, _)
Unreached(us, unreachable) ==
    IF us = <<>> THEN 0
    ELSE (IF Head(us) \in unreachable THEN 1 ELSE 0) + Unreached(Tail(us), unreachable)

\* C24: for every non-empty list of registered users and every set of users
\* whose send fails, the broadcast makes exactly one send per user in list
\* order, whatever sends failed before, and reports success + failed = total
\* with total the number of users and failed the number of failing users; with
\* no registered user it makes no send and reports that there are no users.
C24_BroadcastReport ==
    [][\A u \in Users, unreachable \in SUBSET Recipients :
          (/\ conv[u].broadcast = "BROADCAST_MESSAGE"
           /\ reply' \in {"no_users", "broadcast_complete"}
           /\ send_broadcast(u, <<"h", "i">>, unreachable))
             => IF users = <<>>
                THEN reply' = "no_users" /\ broadcast' = broadcast
                ELSE /\ reply' = "broadcast_complete"
                     /\ Len(broadcast'.sends) = Len(users)
                     /\ \A i \in 1..Len(users) :
                           /\ broadcast'.sends[i].chat_id = users[i]
                           /\ broadcast'.sends[i].delivered = (users[i] \notin unreachable)
                     /\ broadcast'.total = Len(users)
                     /\ broadcast'.fail_count = Unreached(users, unreachable)
                     /\ broadcast'.success_count + broadcast'.fail_count
                           = broadcast'.total]_vars

\* 5 users with the send to user 3 failing: the report says 4, 1, 5, and users
\* 4 and 5 were sent the message
C24_Witness ==
    /\ reply = "broadcast_complete"
    /\ Len(users) = 5
    /\ broadcast.success_count = 4 /\ broadcast.fail_count = 1 /\ broadcast.total = 5
    /\ ~broadcast.sends[3].delivered
    /\ broadcast.sends[4].delivered /\ broadcast.sends[5].delivered

----------------------------------------------------------------------------
(* C25 *)

\* C25: when the snapshot write of a publish commit or a blog commit has
\* failed, so that the file does not hold the document, the user is not sent
\* the success message of the commit.
C25_WriteFailureReported ==
    (call \in {"finalize_post", "handle_blog_more_text"} /\ file # data)
       => reply \notin {"post_created", "blog_published"}

----------------------------------------------------------------------------
(* C26 *)

\* the required variables that are absent from the environment
Absent == {var \in {"BOT_TOKEN", "MONGO_URI", "ADMIN_IDS"} : ~process.env[var].set}

\* C26: when required variables are absent, the process never serves, and
\* once it has exited its exit status is not 0 and its failure report names
\* every absent variable.
C26_AllMissingReported ==
    Absent # {} =>
       /\ process.pc # "run_polling"
       /\ process.exited =>
             /\ process.exit_code # 0
             /\ Absent \subseteq {process.named[i] : i \in 1..Len(process.named)}

----------------------------------------------------------------------------
(* C27, C28 *)

\* the batch the title was extracted from
Batch == Get(userdata[Admin], "files", <<>>)

\* the batch has a first document with a non-empty name
HasName == Batch # <<>> /\ Get(Batch[1], "file_name", <<>>) # <<>>

\* C27: for a batch whose first file is named "MyShow.S01E02.1080p.mkv"
\* extract_drama_name returns "Myshow".
C27_SampleTitle ==
    (call = "extract_drama_name" /\ HasName /\ Batch[1].file_name = SampleName)
       => ret = <<"M", "y", "s", "h", "o", "w">>

\* C28: extract_drama_name never returns an empty or blank title; for an
\* empty batch, a first file without a name and a name of which the
\* substitutions leave nothing but whitespace it returns "New Drama Post".
C28_NeverEmptyTitle ==
    call = "extract_drama_name" =>
       /\ ret # <<>>
       /\ Strip(ret) # <<>>
       /\ (~HasName \/ CollapseSpaces(RemovePatterns(Batch[1].file_name)) = <<>>)
             => ret = Placeholder

\* the title of a name that the substitutions reduce to nothing ("E1.mkv")
C28_Witness ==
    /\ call = "extract_drama_name"
    /\ HasName
    /\ Batch[1].file_name = <<"E", "1", ".", "m", "k", "v">>
    /\ ret = Placeholder

----------------------------------------------------------------------------
(* Registration of the users *)

\* users start, ask for help, write texts in private chats and in groups, and
\* the admin broadcasts to whoever is registered
NextRegister ==
    \E u \in Users :
       \/ start(u)
       \/ help(u)
       \/ \E chat_type \in {"private", "group"}, found \in BOOLEAN :
             handle_text_message(u, <<"h", "i">>, chat_type, found)
       \/ cancel(u)
       \/ start_addpost(u)
       \/ start_broadcast(u)
       \/ \E unreachable \in SUBSET Users : send_broadcast(u, <<"h", "i">>, unreachable)

SpecRegister == Init /\ [][NextRegister]_vars

----------------------------------------------------------------------------
(* C29, C30 *)

\* user u has a record in the user store
Registered(u) == \E i \in 1..Len(users) : users[i] = u

\* no two records of the user store have the same user id
OneRecordPerId == \A i, j \in 1..Len(users) : users[i] = users[j] => i = j

\* C29: the user store holds at most one record per user id, no step of the
\* bot removes a record, and /start of a user who has a record leaves the
\* number of records as it was.
C29_RegistrationIsUpsert ==
    [][ /\ OneRecordPerId'
        /\ Len(users') >= Len(users)
        /\ \A i \in 1..Len(users) : users'[i] = users[i]
        /\ \A u \in Users :
              (reply' = "welcome" /\ Registered(u) /\ start(u))
                 => Len(users') = Len(users) ]_vars

\* both users were on record when the admin broadcast, and one of them has
\* sent /start again since
C29_Witness ==
    /\ reply = "welcome"
    /\ Len(users) = 2
    /\ Registered(Admin) /\ Registered(Guest)
    /\ broadcast.total = 2

\* C30: after a command or message of a user that the bot handled, the user
\* has a record in the user store.
C30_HandledUserIsRegistered ==
    [][ \A u \in Users :
           ( \/ reply' = "welcome" /\ start(u)
             \/ reply' = "help" /\ help(u)
             \/ call' = call /\ cancel(u)
             \/ call' = call /\ start_addpost(u)
             \/ call' = call /\ start_broadcast(u) )
              => Registered(u)' ]_vars

----------------------------------------------------------------------------
(* C31 *)

\* the post at position i of the store was promoted by a completed /ongoing
\* session (update_post_section found it)
Promoted(i) == "updated_at" \in DOMAIN posts[i]

\* C31: no step removes a post from the store or changes its title; the
\* section of a post changes only in the step that answers yes_complete, only
\* to "all_posts", and only for a post that was not promoted before.
C31_SectionChangesOnlyByPromotion ==
    [][ /\ Len(posts') >= Len(posts)
        /\ \A i \in 1..Len(posts) :
              /\ posts'[i].title = posts[i].title
              /\ posts'[i].section # posts[i].section
                    => /\ call' = "handle_ongoing_completion"
                       /\ reply' = "moved"
                       /\ posts'[i].section = "all_posts"
                       /\ ~Promoted(i) ]_vars

\* an /ongoing session was answered with yes_complete and update_post_section
\* found the post of that title, which is in section all_posts
C31_Witness ==
    /\ call = "handle_ongoing_completion"
    /\ reply = "moved"
    /\ \E i \in 1..Len(posts) : Promoted(i) /\ posts[i].section = "all_posts"

----------------------------------------------------------------------------
(* The /ongoing conversation on its own, the users never cancelling *)

\* every update user u can send to the /ongoing conversation except /cancel;
\* a photo that no state of the conversation takes is dropped
OngoingUpdates(u) ==
    \/ start_ongoing(u)
    \/ \E cbdata \in {"add_ongoing", "edit_ongoing"} : handle_ongoing_choice(u, cbdata)
    \/ \E text \in FewTexts : get_ongoing_channel(u, text)
    \/ ignored(u, PhotoUpdate)
    \/ \E document \in Documents :
          RoomFor(u, document, ShortFileLists) /\ get_ongoing_files(u, document)
    \/ \E cbdata \in {"more_ongoing_files", "finish_ongoing_files"} :
          /\ Dispatch(u, CallbackUpdate(cbdata)).handler = "handle_ongoing_files_decision"
          /\ \E os \in SessionOutcomes, now \in Times :
                handle_ongoing_files_decision(u, cbdata, os, 0, now)
    \/ \E cbdata \in {"yes_complete", "no_complete"}, now \in Times :
          handle_ongoing_completion(u, cbdata, now)

NextOngoing == \E u \in Users : OngoingUpdates(u)

SpecOngoing == Init /\ [][NextOngoing]_vars

\* the admin goes on sending updates as long as the bot reacts to one
SpecOngoingLive == SpecOngoing /\ WF_vars(OngoingUpdates(Admin))

----------------------------------------------------------------------------
(* C32 *)

\* the admin chose add-new and supplied the channel link
AddNewChannelSupplied ==
    /\ conv[Admin].ongoing \notin {END, "ONGOING_CHOICE", "ONGOING_CHANNEL"}
    /\ Get(userdata[Admin], "ongoing_action", None) = "add"
    /\ "channel_link" \in DOMAIN userdata[Admin]

\* C32: after add-new and a channel link, the updates the admin sends (none
\* of them /cancel) take the session through the file collection on to the
\* COMPLETION state, as they do after edit-existing.
C32_AddNewReachesCompletion ==
    AddNewChannelSupplied ~> (conv[Admin].ongoing = "ONGOING_COMPLETION")

----------------------------------------------------------------------------
(* C33 *)

\* the /addpost conversation of the admin collects files, before and after
\* the step
CollectsOn == conv[Admin].addpost = "FILES" /\ conv'[Admin].addpost = "FILES"

\* the list of files of the admin's session, empty when the session has none
FilesOf(fields) == IF "files" \in DOMAIN fields THEN fields.files ELSE <<>>

\* the step is get_files taking a document
FileMessage == \E document \in Documents : get_files(Admin, document)

\* C33: accepting the image leaves an empty file list; while the /addpost
\* conversation is in FILES a file message appends exactly its document and
\* keeps the state, and every other step that keeps the conversation in
\* FILES ("more" among them) leaves the list as it is, so that the list at
\* the finish is the files sent since the image, in the order they came.
C33_FilesSinceImage ==
    [][ /\ (conv[Admin].addpost = "IMAGE" /\ conv'[Admin].addpost = "FILES")
              => /\ "files" \in DOMAIN userdata'[Admin]
                 /\ userdata'[Admin].files = <<>>
        /\ \A document \in Documents :
              (conv[Admin].addpost = "FILES" /\ get_files(Admin, document))
                 => /\ conv'[Admin].addpost = "FILES"
                    /\ "files" \in DOMAIN userdata'[Admin]
                    /\ userdata'[Admin].files = Append(FilesOf(userdata[Admin]), document)
        /\ (CollectsOn /\ ~FileMessage)
              => /\ "files" \in DOMAIN userdata'[Admin]
                 /\ userdata'[Admin].files = FilesOf(userdata[Admin]) ]_vars

----------------------------------------------------------------------------
(* import_data *)

\* import_data: the document read from the backup file replaces the snapshot
\* and is saved; a backup file that cannot be read or parsed changes nothing
ImportData(imported_data, readable) ==
    /\ call' = "import_data"
    /\ IF readable
       THEN /\ data' = imported_data
            /\ file' = SavedFile(data')
            /\ ret' = TRUE
       ELSE /\ ret' = FALSE
            /\ UNCHANGED <<data, file>>
    /\ UNCHANGED botVars

\* the calls on the snapshot, import_data of a backup among them
NextImport ==
    \/ \E s \in SectionNames, r \in InputRecords, t \in Times : AddToSection(s, r, t)
    \/ \E f \in FromSections, s \in ToSections, ti \in InputTitles, t \in Times :
          MovePost(f, s, ti, t)
    \/ UpdateSearchData
    \/ \E imported_data \in LoadedDocs, readable \in BOOLEAN :
          ImportData(imported_data, readable)

SpecImport == Init /\ [][NextImport]_vars

----------------------------------------------------------------------------
(* C34 *)

\* C34: after import_data has replaced the document, search_data is the
\* deduplicated projection of the four content sequences it imported.
C34_ImportRecomputesSearchData ==
    (call = "import_data" /\ ret = TRUE) => data.search_data = SearchData(data)

----------------------------------------------------------------------------
(* The /blog conversation *)

\* most text pieces of one blog session
MaxPieces == 2

\* text pieces: two lines, and a line longer than a title
BlogTexts == { <<"A", "\n", "b">>, Repeat("x", TitleLimit + 1) }

\* the blog texts that up to n pieces add up to
RECURSIVE BlogTextsOf(_)
BlogTextsOf(n) ==
    IF n = 0 THEN {<<>>}
    ELSE LET shorter == BlogTextsOf(n - 1)
         IN shorter \cup {d \o text \o <<"\n", "\n">> : d \in shorter, text \in BlogTexts}

\* the /blog conversation of every user; an /ongoing conversation started
\* beside it takes the /cancel, which clears the fields of both
NextBlog ==
    \E u \in Users :
       \/ cancel(u)
       \/ start_blog(u)
       \/ start_ongoing(u)
       \/ get_blog_image(u, TRUE)
       \/ \E text \in BlogTexts :
             /\ Get(userdata[u], "blog_text", <<>>) \o text \o <<"\n", "\n">>
                   \in BlogTextsOf(MaxPieces)
             /\ get_blog_text(u, text)
       \/ \E cbdata \in {"add_more_text", "finish_blog"}, now \in Times :
             handle_blog_more_text(u, cbdata, now)

SpecBlog == Init /\ [][NextBlog]_vars

----------------------------------------------------------------------------
(* C35 *)

\* title is the first line of body, cut to TitleLimit characters
IsFirstLineCut(title, body) ==
    /\ Len(title) <= TitleLimit
    /\ Len(title) <= Len(body)
    /\ title = SubSeq(body, 1, Len(title))
    /\ \A i \in 1..Len(title) : title[i] # "\n"
    /\ \/ Len(title) = TitleLimit
       \/ Len(title) = Len(body)
       \/ body[Len(title) + 1] = "\n"

\* the step publishes the blog of user u
Publishes(u) ==
    /\ conv[u].blog = "BLOG_MORE_TEXT"
    /\ conv'[u].blog = END
    /\ reply' = "blog_published"

\* the entry a publishing step writes: the session's text is its body, its
\* title is the first line of the body cut to 100 characters, and the entry
\* added to the store is the one at the front of blog_posts
PublishedEntry(u) ==
    LET entry == blogs'[Len(blogs')]
    IN /\ Len(blogs') = Len(blogs) + 1
       /\ entry.content = userdata[u].blog_text
       /\ IsFirstLineCut(entry.title, entry.content)
       /\ Len(data'.blog_posts) = Len(data.blog_posts) + 1
       /\ data'.blog_posts[1] = entry

\* the step takes a text piece of user u into the session
TakesPiece(u, text) ==
    /\ conv[u].blog = "BLOG_TEXT"
    /\ reply' = "content_preview"
    /\ get_blog_text(u, text)

\* C35 as stated: the body is the concatenation of the text pieces: a piece
\* taken into the session extends the text by exactly the piece.
C35_BodyIsConcatenation ==
    [][\A u \in Users :
          /\ \A text \in BlogTexts :
                TakesPiece(u, text)
                   => userdata'[u].blog_text = userdata[u].blog_text \o text
          /\ Publishes(u) => PublishedEntry(u)]_vars

\* C35 amended: /blog starts with an empty text, every piece taken into the
\* session extends the text by the piece and a blank line ("\n\n"), "add
\* more" leaves the text as it is, and the finish publishes an entry whose
\* body is that text, whose title is the first line of the body cut to 100
\* characters, and which is both added to the store and put at the front of
\* blog_posts.
C35_BodyIsPiecesWithBlankLines ==
    [][\A u \in Users :
          /\ (conv[u].blog = END /\ conv'[u].blog = "BLOG_IMAGE")
                => userdata'[u].blog_text = <<>>
          /\ \A text \in BlogTexts :
                TakesPiece(u, text)
                   => userdata'[u].blog_text
                         = userdata[u].blog_text \o text \o <<"\n", "\n">>
          /\ (conv[u].blog = "BLOG_MORE_TEXT" /\ conv'[u].blog = "BLOG_TEXT")
                => userdata'[u] = userdata[u]
          /\ Publishes(u) => PublishedEntry(u)]_vars

\* a blog of two pieces is published: its body holds both, each followed by a
\* blank line, and its title is the first line of the first piece
C35_Witness ==
    /\ reply = "blog_published"
    /\ blogs # <<>>
    /\ blogs[Len(blogs)].content
          = <<"A", "\n", "b", "\n", "\n">> \o Repeat("x", TitleLimit + 1) \o <<"\n", "\n">>
    /\ blogs[Len(blogs)].title = <<"A">>
    /\ data.blog_posts[1] = blogs[Len(blogs)]

----------------------------------------------------------------------------
(* C36 *)

\* the step is the bot handling an update of user u in one of the four
\* conversations
ConversationUpdate(u) ==
    \/ cancel(u)
    \/ start_addpost(u) \/ start_ongoing(u) \/ start_blog(u) \/ start_broadcast(u)
    \/ \E text \in FewTexts :
          \/ get_channel_link(u, text)
          \/ get_ongoing_channel(u, text)
          \/ get_blog_text(u, text)
          \/ send_broadcast(u, text, {})
    \/ get_image(u, TRUE) \/ get_blog_image(u, TRUE)
    \/ \E document \in Documents : get_files(u, document) \/ get_ongoing_files(u, document)
    \/ \E os \in SessionOutcomes, now \in Times :
          \/ \E cbdata \in {"more_files", "finish_files"} :
                handle_file_decision(u, cbdata, os, 0, now)
          \/ \E cbdata \in {"more_ongoing_files", "finish_ongoing_files"} :
                handle_ongoing_files_decision(u, cbdata, os, 0, now)
    \/ \E cbdata \in {"add_ongoing", "edit_ongoing"} : handle_ongoing_choice(u, cbdata)
    \/ \E now \in Times :
          \/ \E cbdata \in {"yes_complete", "no_complete"} :
                handle_ongoing_completion(u, cbdata, now)
          \/ \E cbdata \in {"add_more_text", "finish_blog"} :
                handle_blog_more_text(u, cbdata, now)

\* C36: a user who is not in the admin list never has a conversation in
\* progress, and no update of such a user changes the posts, files or blogs of
\* the store, the snapshot document or its file, sends to a channel, or
\* broadcasts.
C36_NonAdminChangesNothing ==
    [][\A u \in Users \ ADMIN_IDS :
          /\ \A family \in FamilyNames : conv'[u][family] = END
          /\ \/ UNCHANGED <<posts, dbfiles, blogs, data, file, channel, broadcast>>
             \/ ~ConversationUpdate(u)]_vars

\* the guest's command was refused while the store holds a post and a blog
\* of the admin
C36_Witness ==
    /\ reply = "admins_only"
    /\ posts # <<>>
    /\ blogs # <<>>
    /\ data.all_posts # <<>>

----------------------------------------------------------------------------
(* C37 *)

\* the step answers the completion question of user u's /ongoing session
AnswersCompletion(u) ==
    /\ conv[u].ongoing = "ONGOING_COMPLETION"
    /\ conv'[u].ongoing = END
    /\ call' = "handle_ongoing_completion"

\* C37: the "moved from Ongoing to All Posts" acknowledgment is sent only
\* when the promotion happened: after it all_posts has a record with the
\* derived title and ongoing_dramas has none, and when ongoing_dramas had no
\* record with that title (move_post fails) the acknowledgment is not sent.
C37_MovedOnlyIfMoved ==
    [][\A u \in Users :
          AnswersCompletion(u) =>
             LET drama_name == ExtractDramaName(FilesOf(userdata[u]))
             IN /\ reply' = "moved"
                      => /\ FindPost(data'.all_posts, drama_name) # 0
                         /\ FindPost(data'.ongoing_dramas, drama_name) = 0
                /\ FindPost(data.ongoing_dramas, drama_name) = 0
                      => reply' # "moved"]_vars

----------------------------------------------------------------------------
(* C38 *)

\* C38: a move_post call that returns success leaves the number of records
\* held in the four content sequences as it was.
C38_MoveKeepsRecordCount ==
    [][(call' = "move_post" /\ ret' = TRUE /\ data' # data)
          => NumRecords(data') = NumRecords(data)]_vars

----------------------------------------------------------------------------
(* C39 *)

\* the last call on the snapshot recomputed search_data
Recomputed ==
    \/ call = "update_search_data"
    \/ call \in {"add_to_section", "move_post"} /\ ret = TRUE

\* C39: after a recompute no two entries of search_data have the same
\* lower-cased title and no entry has an empty title, so that a content
\* record without a title has no entry in search_data.
C39_SearchTitlesDistinctAndNonEmpty ==
    Recomputed =>
       /\ \A i, j \in 1..Len(data.search_data) :
             TitleKey(data.search_data[i]) = TitleKey(data.search_data[j]) => i = j
       /\ \A i \in 1..Len(data.search_data) : TitleKey(data.search_data[i]) # <<>>

\* a recompute on a content of two records, one of them without a title:
\* search_data has the entry of the other one only
C39_Witness ==
    /\ Recomputed
    /\ NumRecords(data) = 2
    /\ Len(data.search_data) = 1
    /\ \E k \in ContentSections : \E i \in 1..Len(data[k]) : TitleKey(data[k][i]) = <<>>

----------------------------------------------------------------------------
(* C40 *)

\* the step ends the /addpost session of user u in finalize_post without the
\* success message
PublishFails(u) ==
    /\ conv[u].addpost = "FILES"
    /\ conv'[u].addpost = END
    /\ call' = "finalize_post"
    /\ reply' # "post_created"

\* C40: a publish session that ends without the success message leaves no
\* post and no file record of its batch in the store, and leaves the snapshot
\* and its file as they were.
C40_PublishAllOrNothing ==
    [][\A u \in Users :
          PublishFails(u) => UNCHANGED <<posts, dbfiles, data, file>>]_vars

====
